---- MODULE Spec2Model ----
(***************************************************************************)
(* podcast-summary: the episode pipeline (src/commands/sync.rs), the      *)
(* store (src/db.rs), feed discovery (src/feed.rs) and the audio download *)
(* (src/download.rs), as state machines.                                  *)
(***************************************************************************)
EXTENDS Integers, Sequences, FiniteSets, TLC

\* ------------------------------------------------------------------ bounds
\* sync invocations per behaviour
MaxRuns == 2
\* entries of one fetched feed document
MaxFeedLen == 2
\* largest configured max_concurrent_downloads
MaxK == 2
\* chunks of one response body
NumChunks == 2
\* progress values one transcription worker stores
MaxStores == 2
\* packets of one audio stream
MaxPackets == 3
\* largest max_seconds passed to next_chunk
MaxSeconds == 2
\* next_chunk calls on one decoder
MaxCalls == 3

\* the feeds the user may subscribe to (a podcast row's id is its feed's number)
Podcasts == {1}
\* the subscriptions of a store with several podcasts
StorePodcasts == {1, 2}
\* the guids a feed may list
Guids == {1, 2}

\* ------------------------------------------------------------- option values
\* Option<T>: None is the empty tuple, Some(x) the one-element tuple
None == <<>>
Some(x) == <<x>>
IsSome(o) == o # <<>>
Unwrap(o) == o[1]

Range(s) == {s[i] : i \in DOMAIN s}
NoDup(s) == \A i, j \in DOMAIN s : i # j => s[i] # s[j]

\* ---------------------------------------------------------------------- urls
\* An audio URL is a sequence of tokens; "/" "?" and "." are the separators the
\* code looks at.  A feed either gives every episode a last path segment of its
\* own, or the same last segment under different directories and query strings.
OwnSegment(g) ==
  <<"https:", "/", "host", "/", "ep" \o ToString(g), ".", "mp3">>
SameSegment(g) ==
  <<"https:", "/", "host", "/", "d" \o ToString(g), "/", "ep", ".", "mp3",
    "?", "t" \o ToString(g)>>
OtherExtension(g) ==
  <<"https:", "/", "host", "/", "d" \o ToString(g), "/", "ep", ".", "m4a">>
UrlTables == {[g \in Guids |-> OwnSegment(g)], [g \in Guids |-> SameSegment(g)]}

\* index of the last token tok in s, 0 when there is none
LastIndexOf(s, tok) ==
  LET I == {i \in DOMAIN s : s[i] = tok}
  IN IF I = {} THEN 0 ELSE CHOOSE i \in I : \A j \in I : j <= i

\* index of the first token tok in s, Len(s) + 1 when there is none
FirstIndexOf(s, tok) ==
  LET I == {i \in DOMAIN s : s[i] = tok}
  IN IF I = {} THEN Len(s) + 1 ELSE CHOOSE i \in I : \A j \in I : i <= j

\* download.rs: audio_url.rsplit('/').next() ... .split('?').next()
FileName(url) ==
  LET seg == SubSeq(url, LastIndexOf(url, "/") + 1, Len(url))
  IN SubSeq(seg, 1, FirstIndexOf(seg, "?") - 1)

\* Path::with_extension: the part after the last "." is replaced
WithExtension(name, ext) ==
  LET d == LastIndexOf(name, ".")
  IN IF d <= 1 THEN name \o <<".", ext>> ELSE SubSeq(name, 1, d) \o <<ext>>

\* download.rs: dest = output_dir/<podcast_id>/<filename>
Dest(url, podcast_id) == <<"audio", podcast_id>> \o FileName(url)
TmpDest(url, podcast_id) == <<"audio", podcast_id>> \o WithExtension(FileName(url), "part")

\* sync.rs: transcript_dir/<podcast_id>/<ep_id>.txt
TranscriptFile(podcast_id, ep_id) == <<"transcripts", podcast_id, ep_id, ".", "txt">>

\* ------------------------------------------------------------ failure reasons
\* format!("download: {e}") etc.: the phase tag followed by the cause
Cause == "error"
FailedDownload == <<"download: ", Cause>>
FailedTranscribe == <<"transcribe: ", Cause>>
FailedSummarize == <<"summarize: ", Cause>>

VARIABLES
  feed_urls, \* the audio URL the feed lists for each guid
  db,        \* the SQLite store and the open connection's last_insert_rowid
  files,     \* the paths that exist on disk
  config,    \* AppConfig: max_concurrent_downloads, auto_cleanup_audio, API key set
  pc,        \* position of the running invocation ("idle" between invocations)
  args,      \* the sync command's arguments
  episode,   \* run_single_episode's copy of the episode row
  podcasts,  \* run: the podcasts still to check
  all_new,   \* run: all_new_episodes (ids of the Episode copies, in order)
  sem,       \* download_episodes: free permits of the semaphore
  tasks,     \* download_episodes: one record per spawned or pending task
  joined,    \* download_episodes: number of tasks awaited so far
  downloaded,  \* Vec<(ep_id, path)>
  tr_idx,    \* transcribe_episodes: entries of downloaded processed
  transcribed, \* Vec<ep_id> (the transcript text is not modelled)
  sum_idx,   \* summarize_episodes: entries of transcribed processed
  result,    \* outcome of the last finished invocation: "ok" or "err"
  runs,      \* sync invocations started
  hist,      \* history of the current invocation, for stating the properties
  dl_eps,    \* file-level download: the episodes download_episodes is called with
  dl_sem,    \* file-level download: free permits
  dl_tasks,  \* file-level download: the tasks, with their open file and position
  fs_dir,    \* file-level download: directory entries, path -> inode
  fs_data,   \* file-level download: inode -> content
  tp_mode,   \* transcription with its poller: "batch" or "single"
  tp_pc,     \* position of the orchestrator in the transcribe / summarize loops
  tp_i,      \* index of the episode the loop is at
  handle,    \* per episode: the spawn_blocking worker ("none", "running", "ok", "err", "joined")
  progress,  \* per episode: the AtomicI32 progress cell
  stored,    \* per episode: number of values the worker stored in the cell
  pct,       \* the poller's last read of the cell
  pb,        \* per episode: the position the progress bar shows (None before any display)
  tp_written, \* per episode: the store write made after its transcription
  sm_req,    \* per episode: the summarization request ("none", "sent", "ok", "err")
  sm_written, \* per episode: the store write made after its summarization
  decoder,   \* a ChunkedAudioDecoder: the packets left in its format reader, finished, channels
  chunk_out, \* what the last next_chunk call returned
  dec_hist,  \* next_chunk calls made, whether one has returned None, the source and the samples returned
  samples,   \* audio functions: the &[f32] slice the next call is given
  au_call,   \* audio functions: the last call made, with its arguments
  au_out,    \* audio functions: what the last call returned
  last_op,   \* store operations: the last Database call or remove command made
  now,       \* store operations: the clock, in seconds
  created_at, \* store operations: <<id, second>> of each summary row's created_at column
  app_config, \* config set: the AppConfig that load returns
  set_call   \* config set: the last validate_and_apply call, its arguments and what it did

vars == <<feed_urls, db, files, config, pc, args, episode, podcasts, all_new, sem, tasks,
          joined, downloaded, tr_idx, transcribed, sum_idx, result, runs, hist,
          dl_eps, dl_sem, dl_tasks, fs_dir, fs_data,
          tp_mode, tp_pc, tp_i, handle, progress, stored, pct, pb, tp_written,
          sm_req, sm_written, decoder, chunk_out, dec_hist,
          samples, au_call, au_out, last_op, now, created_at, app_config, set_call>>

DlVars == <<dl_eps, dl_sem, dl_tasks, fs_dir, fs_data>>
PollVars == <<tp_mode, tp_pc, tp_i, handle, progress, stored, pct, pb, tp_written,
              sm_req, sm_written>>
\* the variables of the component models, which the pipeline's actions leave alone
DecVars == <<decoder, chunk_out, dec_hist>>
AudVars == <<samples, au_call, au_out>>
StoreVars == <<last_op, now, created_at>>
CfgVars == <<app_config, set_call>>
SideVars == <<DlVars, PollVars, DecVars, AudVars, StoreVars, CfgVars>>

\* ------------------------------------------------------------ EpisodeStatus
\* models.rs: enum EpisodeStatus { New, Downloaded, Transcribed, Summarized, Failed(String) }
Failed(reason) == <<"Failed", reason>>

as_str(status) ==
  CASE status = <<"New">> -> "new"
    [] status = <<"Downloaded">> -> "downloaded"
    [] status = <<"Transcribed">> -> "transcribed"
    [] status = <<"Summarized">> -> "summarized"
    [] OTHER -> "failed"

\* the reason is dropped
fail_reason_none(status) == None

fail_reason(status) ==
  IF status[1] = "Failed" THEN Some(status[2]) ELSE None

from_db(status, reason) ==
  CASE status = "new" -> <<"New">>
    [] status = "downloaded" -> <<"Downloaded">>
    [] status = "transcribed" -> <<"Transcribed">>
    [] status = "summarized" -> <<"Summarized">>
    [] status = "failed" -> Failed(IF IsSome(reason) THEN Unwrap(reason) ELSE <<"unknown">>)
    [] OTHER -> <<"New">>

\* ------------------------------------------------------------------ Database
\* A store value d: the three tables, the two AUTOINCREMENT counters and the
\* connection's last_insert_rowid.
EmptyDb ==
  [podcasts |-> {}, episodes |-> <<>>, ep_seq |-> 0,
   summaries |-> <<>>, sum_seq |-> 0, last_rowid |-> 0]

\* Database::open: a new connection; no insert has happened on it
open(d) == [d EXCEPT !.last_rowid = 0]

insert_podcast(d, p) ==
  [d EXCEPT !.podcasts = @ \cup {p}, !.last_rowid = p]

\* INSERT OR REPLACE: the row stored for the pair gives way to the new one
insert_episode_replace(d, podcast_id, guid, audio_url) ==
  LET old == {id \in DOMAIN d.episodes :
                d.episodes[id].podcast_id = podcast_id /\ d.episodes[id].guid = guid}
      id == d.ep_seq + 1
      row == [podcast_id |-> podcast_id, guid |-> guid, audio_url |-> audio_url,
              status |-> "new", fail_reason |-> None,
              audio_path |-> None, transcript_path |-> None]
  IN [d EXCEPT !.episodes = (id :> row) @@ [k \in (DOMAIN @) \ old |-> @[k]],
               !.ep_seq = id, !.last_rowid = id]

\* INSERT OR IGNORE ... UNIQUE(podcast_id, guid): an ignored insert changes
\* nothing, the connection's last_insert_rowid included.  The value returned to
\* the caller is the last_rowid of the resulting store.
insert_episode(d, podcast_id, guid, audio_url) ==
  IF \E id \in DOMAIN d.episodes :
       d.episodes[id].podcast_id = podcast_id /\ d.episodes[id].guid = guid
  THEN d
  ELSE LET id == d.ep_seq + 1
           row == [podcast_id |-> podcast_id, guid |-> guid, audio_url |-> audio_url,
                   status |-> "new", fail_reason |-> None,
                   audio_path |-> None, transcript_path |-> None]
       IN [d EXCEPT !.episodes = (id :> row) @@ @, !.ep_seq = id, !.last_rowid = id]

has_episode(d, id) == id \in DOMAIN d.episodes

\* get_episode: the row (callers check has_episode first; absent is an Err)
get_episode(d, id) == d.episodes[id]

\* a status write that is lost
update_episode_status_lost(d, id, status) == d

update_episode_status(d, id, status) ==
  IF has_episode(d, id)
  THEN [d EXCEPT !.episodes[id].status = as_str(status),
                 !.episodes[id].fail_reason = fail_reason(status)]
  ELSE d

update_episode_audio_path(d, id, path) ==
  IF has_episode(d, id)
  THEN [d EXCEPT !.episodes[id].audio_path = Some(path),
                 !.episodes[id].status = "downloaded"]
  ELSE d

update_episode_transcript_path(d, id, path) ==
  IF has_episode(d, id)
  THEN [d EXCEPT !.episodes[id].transcript_path = Some(path),
                 !.episodes[id].status = "transcribed"]
  ELSE d

\* INSERT INTO summaries, then UPDATE episodes SET status = 'summarized'
insert_summary(d, episode_id) ==
  LET id == d.sum_seq + 1
  IN [d EXCEPT !.summaries = Append(@, [id |-> id, episode_id |-> episode_id]),
               !.sum_seq = id,
               !.last_rowid = id,
               !.episodes[episode_id].status = "summarized"]

SummariesOf(d, episode_id) ==
  {i \in DOMAIN d.summaries : d.summaries[i].episode_id = episode_id}

\* get_summary_by_episode(..).is_some()
has_summary(d, episode_id) == SummariesOf(d, episode_id) # {}

\* a delete that leaves the stored summaries in place
delete_summary_kept(d, episode_id) == d

delete_summary_by_episode(d, episode_id) ==
  [d EXCEPT !.summaries = SelectSeq(@, LAMBDA r : r.episode_id # episode_id)]

clear_episode_transcript(d, id) ==
  IF has_episode(d, id)
  THEN [d EXCEPT !.episodes[id].transcript_path = None,
                 !.episodes[id].status = "downloaded"]
  ELSE d

\* ---------------------------------------------------------------------- feed
\* a fetched feed document of podcast p: up to MaxFeedLen entries, any guids in
\* any order (a guid may be listed twice)
Entry(p, g) == [guid |-> g, audio_url |-> feed_urls[g]]
Feeds(p) ==
  UNION {[1..n -> {Entry(p, g) : g \in Guids}] : n \in 0..MaxFeedLen}

\* feed.rs sync_feed, after fetch_feed returned the entries: r carries the
\* store and new_episodes (the ids of the Episode copies pushed)
RECURSIVE sync_feed_loop(_, _, _, _)
sync_feed_loop(r, podcast_id, entries, i) ==
  IF i > Len(entries) THEN r
  ELSE LET d2 == insert_episode(r.db, podcast_id, entries[i].guid, entries[i].audio_url)
           id == d2.last_rowid
       IN IF id > 0
          THEN IF has_episode(d2, id)
               THEN sync_feed_loop([r EXCEPT !.db = d2,
                                             !.new_episodes = Append(@, id)],
                                   podcast_id, entries, i + 1)
               ELSE [r EXCEPT !.db = d2, !.err = TRUE]   \* get_episode(id)?
          ELSE sync_feed_loop([r EXCEPT !.db = d2], podcast_id, entries, i + 1)

sync_feed(d, podcast_id, entries) ==
  sync_feed_loop([db |-> d, new_episodes |-> <<>>, err |-> FALSE],
                 podcast_id, entries, 1)

\* the poller model at rest
PollIdle ==
  /\ tp_mode = "batch"
  /\ tp_pc = "done"
  /\ tp_i = 0
  /\ handle = <<>>
  /\ progress = <<>>
  /\ stored = <<>>
  /\ pct = 0
  /\ pb = <<>>
  /\ tp_written = <<>>
  /\ sm_req = <<>>
  /\ sm_written = <<>>

\* no decoder open
DecIdle ==
  /\ decoder = [format |-> <<>>, finished |-> TRUE, channels |-> 1, resampled |-> FALSE]
  /\ chunk_out = None
  /\ dec_hist = [calls |-> 0, exhausted |-> FALSE, source |-> decoder.format,
                 returned |-> <<>>, max_seconds |-> 0, hit_end |-> FALSE]

AudIdle ==
  /\ samples = <<>>
  /\ au_call = [f |-> "none"]
  /\ au_out = <<>>

NoOp == [op |-> "none", id |-> 0, status |-> <<"New">>, purge |-> FALSE, n |-> 0]
StoreIdle ==
  /\ last_op = NoOp
  /\ now = 0
  /\ created_at = {}

\* AppConfig::default()
DefaultConfig ==
  [general |-> [data_dir |-> None, max_concurrent_downloads |-> 3,
                auto_cleanup_audio |-> TRUE],
   transcription |-> [backend |-> "local", whisper_model |-> <<"base">>,
                      language |-> None, initial_prompt |-> None, cpu_percent |-> 80,
                      chinese_conversion |-> None],
   summarization |-> [api_base_url |-> <<"https://generativelanguage.googleapis.com/v1beta/openai">>,
                      api_key_env |-> <<"GEMINI_API_KEY">>,
                      model |-> <<"gemini-2.0-flash">>, max_tokens |-> 4096,
                      system_prompt |-> None]]

NoCall == [key |-> "", value |-> <<>>, ok |-> TRUE, before |-> DefaultConfig,
           after |-> DefaultConfig, n |-> 0]

\* no config set command has run
CfgIdle ==
  /\ app_config = DefaultConfig
  /\ set_call = NoCall

\* ------------------------------------------------------------------- history
NoHist ==
  [failed_w |-> {},        \* episodes a Failed status was written for in this run
   later_fail |-> FALSE,   \* a transcription or summarization failed in this run
   failures |-> {},        \* <<ep_id, phase>> of every phase failure of this run
   inserted |-> {},        \* episode ids this run's inserts created
   sf_ret |-> <<>>,        \* what the last sync_feed call returned
   sf_ins |-> {},          \* the episode ids the last sync_feed call created
   sf_calls |-> 0,         \* sync_feed calls of this run
   fetched |-> {},         \* batch run: the podcasts whose feed was fetched
   fetch_failed |-> {},    \* batch run: the podcasts whose feed could not be fetched or parsed
   fresh_tr |-> FALSE,     \* single run: a transcription was performed
   fresh_sum |-> FALSE,    \* single run: a summarization was performed
   redo_full |-> FALSE,    \* single run: redo cleared a transcript file, its path and a summary
   requested |-> {},       \* episodes an HTTP download request was sent for in this run
   tr_calls |-> {},        \* episodes transcribe::transcribe was called for in this run
   sum_calls |-> {},       \* episodes summarize::generate_summary was called for in this run
   writes |-> <<>>,        \* batch run: the episode-row writes made, in order: <<phase, ep_id, what>>
   files0 |-> {},          \* batch run: the files on disk when download_episodes was called
   redo_used |-> FALSE]    \* some invocation so far ran with redo (kept across runs)

Init ==
  /\ feed_urls \in UrlTables
  /\ db = EmptyDb
  /\ files = {}
  /\ config \in [max_concurrent_downloads : 0..MaxK,
                 auto_cleanup_audio : BOOLEAN,
                 api_key : BOOLEAN]
  /\ pc = "idle"
  /\ args = [name |-> None, episode_id |-> None, download_only |-> FALSE, redo |-> FALSE]
  /\ episode = None
  /\ podcasts = <<>>
  /\ all_new = <<>>
  /\ sem = 0
  /\ tasks = <<>>
  /\ joined = 0
  /\ downloaded = <<>>
  /\ tr_idx = 0
  /\ transcribed = <<>>
  /\ sum_idx = 0
  /\ result = "ok"
  /\ runs = 0
  /\ hist = NoHist
  /\ dl_eps = <<>>
  /\ dl_sem = 0
  /\ dl_tasks = <<>>
  /\ fs_dir = <<>>
  /\ fs_data = <<>>
  /\ PollIdle
  /\ DecIdle
  /\ AudIdle
  /\ StoreIdle
  /\ CfgIdle

RunVars == <<SideVars, args, episode, podcasts, all_new, sem, tasks, joined, downloaded,
             tr_idx, transcribed, sum_idx>>

\* ----------------------------------------------------------------------- add
RECURSIVE add_loop(_, _, _, _)
add_loop(d, p, entries, i) ==
  IF i > Len(entries) THEN d
  ELSE add_loop(insert_episode(d, p, entries[i].guid, entries[i].audio_url),
                p, entries, i + 1)

\* commands/add.rs run: subscribe to feed p; every listed episode is stored as New
Add(p, feed) ==
  /\ pc = "idle"
  /\ p \notin db.podcasts
  /\ db' = add_loop(insert_podcast(open(db), p), p, feed, 1)
  /\ result' = "ok"
  /\ UNCHANGED <<feed_urls, files, config, pc, runs, hist>>
  /\ UNCHANGED RunVars

\* ---------------------------------------------------------------------- sync
\* a recorded path that is never found on disk
path_exists_never(o, fs) == FALSE

\* if let Some(ref existing) = path { Path::new(existing).exists() }
path_exists(o, fs) == IsSome(o) /\ Unwrap(o) \in fs

\* the invocation ends: Ok(()) or an error propagated by `?`
Finish(res) ==
  /\ pc' = "idle"
  /\ result' = res

\* main.rs Command::Sync -> commands/sync.rs run, lines 13-33: open the store
\* and branch on episode_id.  redo is only read when an episode id is given.
StartSync(name, episode_id, download_only, redo) ==
  /\ pc = "idle"
  /\ runs < MaxRuns
  /\ runs' = runs + 1
  /\ db' = open(db)
  /\ args' = [name |-> name, episode_id |-> episode_id,
              download_only |-> download_only, redo |-> redo]
  /\ hist' = [NoHist EXCEPT !.redo_used = hist.redo_used \/ redo]
  /\ pc' = IF IsSome(episode_id)
           THEN IF redo THEN "clear" ELSE "single"
           ELSE "podcasts"
  /\ episode' = None
  /\ podcasts' = <<>>
  /\ all_new' = <<>>
  /\ sem' = 0
  /\ tasks' = <<>>
  /\ joined' = 0
  /\ downloaded' = <<>>
  /\ tr_idx' = 0
  /\ transcribed' = <<>>
  /\ sum_idx' = 0
  /\ UNCHANGED <<feed_urls, files, config, result>>
  /\ UNCHANGED SideVars

BatchVars == <<SideVars, feed_urls, podcasts, all_new, sem, tasks, joined, downloaded, tr_idx,
               transcribed, sum_idx>>

\* sync.rs clear_episode_results (lines 110-127)
clear_episode_results ==
  /\ pc = "clear"
  /\ LET ep_id == Unwrap(args.episode_id)
     IN IF ~has_episode(db, ep_id)
        THEN /\ Finish("err")
             /\ UNCHANGED <<db, files, hist>>
        ELSE LET e == get_episode(db, ep_id)
             IN /\ files' = IF IsSome(e.transcript_path)
                            THEN files \ {Unwrap(e.transcript_path)}
                            ELSE files
                /\ db' = delete_summary_by_episode(clear_episode_transcript(db, ep_id), ep_id)
                /\ hist' = [hist EXCEPT !.redo_full =
                               /\ IsSome(e.transcript_path)
                               /\ Unwrap(e.transcript_path) \in files
                               /\ has_summary(db, ep_id)]
                /\ pc' = "single"
                /\ UNCHANGED result
  /\ UNCHANGED <<config, args, episode, runs>>
  /\ UNCHANGED BatchVars

\* after run_single_episode returned Ok: run lines 29-33
AfterSingle ==
  IF args.name = None THEN Finish("ok") ELSE pc' = "podcasts" /\ UNCHANGED result

\* run_single_episode lines 137-140: load the episode row and its podcast
SingleBegin ==
  /\ pc = "single"
  /\ LET ep_id == Unwrap(args.episode_id)
     IN IF ~has_episode(db, ep_id)
        THEN /\ Finish("err")
             /\ UNCHANGED episode
        ELSE /\ episode' = Some([id |-> ep_id, row |-> get_episode(db, ep_id),
                                 audio_path |-> None])
             /\ pc' = "s_download"
             /\ UNCHANGED result
  /\ UNCHANGED <<db, files, config, args, runs, hist>>
  /\ UNCHANGED BatchVars

\* run_single_episode lines 143-178: "Download if needed".  ok is the outcome
\* of the HTTP transfer, read only when a request is made.
SingleDownload(ok) ==
  /\ pc = "s_download"
  /\ LET e == Unwrap(episode)
         dest == Dest(e.row.audio_url, e.row.podcast_id)
         next == IF args.download_only THEN AfterSingle
                 ELSE pc' = "s_transcribe" /\ UNCHANGED result
     IN IF path_exists(e.row.audio_path, files)
        THEN \* "Audio already downloaded."
             /\ ok
             /\ episode' = Some([e EXCEPT !.audio_path = e.row.audio_path])
             /\ next
             /\ UNCHANGED <<db, files, hist>>
        ELSE IF dest \in files
        THEN \* download_episode returns the existing file without a request
             /\ ok
             /\ db' = update_episode_audio_path(db, e.id, dest)
             /\ episode' = Some([e EXCEPT !.audio_path = Some(dest)])
             /\ next
             /\ UNCHANGED <<files, hist>>
        ELSE IF ok
        THEN /\ files' = files \cup {dest}
             /\ db' = update_episode_audio_path(db, e.id, dest)
             /\ episode' = Some([e EXCEPT !.audio_path = Some(dest)])
             /\ next
             /\ hist' = [hist EXCEPT !.requested = @ \cup {e.id}]
        ELSE \* download_episode(..).await? propagates the error
             /\ Finish("err")
             /\ hist' = [hist EXCEPT !.failures = @ \cup {<<e.id, "download: ">>},
                                     !.requested = @ \cup {e.id}]
             /\ UNCHANGED <<db, files, episode>>
  /\ UNCHANGED <<config, args, runs>>
  /\ UNCHANGED BatchVars

\* run_single_episode lines 181-278: "Transcribe if needed".  ok is the
\* outcome of transcribe::transcribe, read only when it is called.
SingleTranscribe(ok) ==
  /\ pc = "s_transcribe"
  /\ LET e == Unwrap(episode)
         transcript_file == TranscriptFile(e.row.podcast_id, e.id)
     IN IF path_exists(e.row.transcript_path, files)
        THEN \* "Transcript already exists."
             /\ ok
             /\ pc' = "s_summarize"
             /\ UNCHANGED <<db, files, hist, result>>
        ELSE IF ok
        THEN /\ files' = files \cup {transcript_file}
             /\ db' = update_episode_transcript_path(db, e.id, transcript_file)
             /\ hist' = [hist EXCEPT !.fresh_tr = TRUE, !.tr_calls = @ \cup {e.id}]
             /\ pc' = "s_summarize"
             /\ UNCHANGED result
        ELSE \* handle.await?? propagates the error
             /\ Finish("err")
             /\ hist' = [hist EXCEPT !.failures = @ \cup {<<e.id, "transcribe: ">>},
                                     !.tr_calls = @ \cup {e.id}]
             /\ UNCHANGED <<db, files>>
  /\ UNCHANGED <<config, args, episode, runs>>
  /\ UNCHANGED BatchVars

\* run_single_episode lines 281-322: summarize, then clean the audio file up.
\* ok is the outcome of summarize::generate_summary, read only when called.
SingleSummarize(ok) ==
  /\ pc = "s_summarize"
  /\ LET e == Unwrap(episode)
     IN IF has_summary(db, e.id)
        THEN \* "Summary already exists."
             /\ ok
             /\ AfterSingle
             /\ UNCHANGED <<db, files, hist>>
        ELSE IF ~config.api_key
        THEN \* config.api_key()? propagates the error
             /\ ok
             /\ Finish("err")
             /\ UNCHANGED <<db, files, hist>>
        ELSE IF ok
        THEN /\ db' = insert_summary(db, e.id)
             /\ files' = IF config.auto_cleanup_audio
                         THEN files \ {Unwrap(e.audio_path)}
                         ELSE files
             /\ hist' = [hist EXCEPT !.fresh_sum = TRUE, !.sum_calls = @ \cup {e.id}]
             /\ AfterSingle
        ELSE \* generate_summary(..).await? propagates the error
             /\ Finish("err")
             /\ hist' = [hist EXCEPT !.failures = @ \cup {<<e.id, "summarize: ">>},
                                     !.sum_calls = @ \cup {e.id}]
             /\ UNCHANGED <<db, files>>
  /\ UNCHANGED <<config, args, episode, runs>>
  /\ UNCHANGED BatchVars

SingleVars == <<SideVars, feed_urls, args, episode>>

\* ask the ordered sequence of the elements of a set of numbers
RECURSIVE Sorted(_)
Sorted(S) ==
  IF S = {} THEN <<>>
  ELSE LET m == CHOOSE x \in S : \A y \in S : x <= y
       IN <<m>> \o Sorted(S \ {m})

\* run lines 35-50: the podcasts to check (list_podcasts is ordered by title;
\* feed p's title sorts as p)
ResolvePodcasts ==
  /\ pc = "podcasts"
  /\ IF IsSome(args.name)
     THEN IF Unwrap(args.name) \in db.podcasts
          THEN /\ podcasts' = <<Unwrap(args.name)>>
               /\ pc' = "discover"
               /\ UNCHANGED result
          ELSE \* No podcast matching "{name}" found
               /\ Finish("err")
               /\ UNCHANGED podcasts
     ELSE IF db.podcasts = {}
          THEN \* "No subscriptions."
               /\ Finish("ok")
               /\ UNCHANGED podcasts
          ELSE /\ podcasts' = Sorted(db.podcasts)
               /\ pc' = "discover"
               /\ UNCHANGED result
  /\ UNCHANGED <<db, files, config, runs, hist, all_new, sem, tasks, joined,
                 downloaded, tr_idx, transcribed, sum_idx>>
  /\ UNCHANGED SingleVars

\* the loop over the podcasts is left at the first feed error
after_fetch_error_break(ps) == <<>>

\* run lines 66-68: the Err arm prints and the loop goes on to the next podcast
after_fetch_error(ps) == Tail(ps)

\* run lines 56-70, one iteration: fetch_feed failed, the podcast is skipped
DiscoverFetchFailed ==
  /\ pc = "discover"
  /\ podcasts # <<>>
  /\ podcasts' = after_fetch_error(podcasts)
  /\ hist' = [hist EXCEPT !.fetch_failed = @ \cup {Head(podcasts)}]
  /\ UNCHANGED <<db, files, config, pc, result, runs, all_new, sem, tasks,
                 joined, downloaded, tr_idx, transcribed, sum_idx>>
  /\ UNCHANGED SingleVars

\* run lines 56-70, one iteration: sync_feed on the fetched entries
Discover(feed) ==
  /\ pc = "discover"
  /\ podcasts # <<>>
  /\ LET p == Head(podcasts)
         r == sync_feed(db, p, feed)
         ins == DOMAIN r.db.episodes \ DOMAIN db.episodes
     IN /\ db' = r.db
        /\ all_new' = IF r.err THEN all_new ELSE all_new \o r.new_episodes
        /\ hist' = [hist EXCEPT !.sf_ret = IF r.err THEN <<>> ELSE r.new_episodes,
                                !.sf_ins = ins,
                                !.sf_calls = 1,
                                !.fetched = @ \cup {p},
                                !.inserted = @ \cup ins]
  /\ podcasts' = Tail(podcasts)
  /\ UNCHANGED <<files, config, pc, result, runs, sem, tasks, joined,
                 downloaded, tr_idx, transcribed, sum_idx>>
  /\ UNCHANGED SingleVars

\* a download task before it is spawned; net is what the server will answer
\* if the task sends its request
PendingTask(ep_id, net) ==
  [ep |-> ep_id, st |-> "pending", permit |-> 0, drops |-> 0, net |-> net]

\* run lines 72-78 and download_episodes lines 333-339: nothing new ends the
\* run; otherwise the semaphore is created with max_concurrent_downloads permits
DiscoverDone ==
  /\ pc = "discover"
  /\ podcasts = <<>>
  /\ IF all_new = <<>>
     THEN /\ Finish("ok")
          /\ UNCHANGED <<sem, tasks, hist>>
     ELSE /\ sem' = config.max_concurrent_downloads
          /\ \E net \in [DOMAIN all_new -> {"ok", "err"}] :
               tasks' = [i \in DOMAIN all_new |-> PendingTask(all_new[i], net[i])]
          /\ hist' = [hist EXCEPT !.files0 = files]
          /\ pc' = "spawn"
          /\ UNCHANGED result
  /\ UNCHANGED <<db, files, config, runs, podcasts, all_new, joined,
                 downloaded, tr_idx, transcribed, sum_idx>>
  /\ UNCHANGED SingleVars

\* an acquire that never waits
can_acquire_always(permits) == TRUE

\* Semaphore::acquire_owned: a permit can be taken when one is free
can_acquire(permits) == permits > 0

\* download_episodes lines 340-355, one iteration: acquire a permit, then spawn
\* the task that owns it
Spawn ==
  /\ pc = "spawn"
  /\ LET i == Cardinality({j \in DOMAIN tasks : tasks[j].st # "pending"}) + 1
     IN /\ can_acquire(sem)
        /\ sem' = sem - 1
        /\ tasks' = [tasks EXCEPT ![i].st = "running", ![i].permit = 1]
        /\ pc' = IF i = Len(tasks) THEN "join" ELSE "spawn"
  /\ UNCHANGED <<db, files, config, result, runs, hist, podcasts, all_new, joined,
                 downloaded, tr_idx, transcribed, sum_idx>>
  /\ UNCHANGED SingleVars

TaskUrl(t) == get_episode(db, t.ep).audio_url
TaskDest(t) == Dest(TaskUrl(t), get_episode(db, t.ep).podcast_id)

\* a permit given back only by a successful download
dropped_on_ok(t, res) == IF res = "ok" THEN t.permit ELSE 0

\* the permits a task gives back when its download has returned res:
\* drop(permit) follows the download unconditionally
dropped(t, res) == t.permit

\* the spawned task, lines 349-354: download_episode returned res
TaskReturned(t, res) ==
  [t EXCEPT !.st = res,
            !.permit = @ - dropped(t, res),
            !.drops = @ + dropped(t, res)]

\* download.rs lines 13-28 in task i: the destination exists, Ok(dest) at once;
\* otherwise the request is sent
DlCheck(i) ==
  /\ pc \in {"spawn", "join"}
  /\ i \in DOMAIN tasks
  /\ tasks[i].st = "running"
  /\ IF TaskDest(tasks[i]) \in files
     THEN /\ tasks' = [tasks EXCEPT ![i] = TaskReturned(@, "ok")]
          /\ sem' = sem + dropped(tasks[i], "ok")
     ELSE /\ tasks' = [tasks EXCEPT ![i].st = "fetching"]
          /\ UNCHANGED sem
  /\ hist' = IF TaskDest(tasks[i]) \in files THEN hist
             ELSE [hist EXCEPT !.requested = @ \cup {tasks[i].ep}]
  /\ UNCHANGED <<db, files, config, pc, result, runs, podcasts, all_new,
                 joined, downloaded, tr_idx, transcribed, sum_idx>>
  /\ UNCHANGED SingleVars

\* download.rs lines 30-62 in task i: the transfer ends, with the file renamed
\* into place (ok) or with an error
DlReturn(i, ok) ==
  /\ pc \in {"spawn", "join"}
  /\ i \in DOMAIN tasks
  /\ tasks[i].st = "fetching"
  /\ ok = (tasks[i].net = "ok")
  /\ LET res == IF ok THEN "ok" ELSE "err"
     IN /\ tasks' = [tasks EXCEPT ![i] = TaskReturned(@, res)]
        /\ sem' = sem + dropped(tasks[i], res)
  /\ files' = IF ok THEN files \cup {TaskDest(tasks[i])} ELSE files
  /\ UNCHANGED <<db, config, pc, result, runs, hist, podcasts, all_new,
                 joined, downloaded, tr_idx, transcribed, sum_idx>>
  /\ UNCHANGED SingleVars

\* the test without its download_only operand
stops_after_download_unless_empty(download_only, d) == d = <<>>

\* run line 80: if download_only || downloaded.is_empty()
stops_after_download(download_only, d) == download_only \/ d = <<>>

\* a join that does not wait for the task
task_await_detached(t) == TRUE

\* download_episodes line 359, task.await: the loop goes on once the task has
\* returned
task_await(t) == t.st \in {"ok", "err"}

\* download_episodes lines 358-373, one iteration: await the next task in
\* spawn order and persist its result; after the last one, run lines 80-83
Join ==
  /\ pc = "join"
  /\ joined < Len(tasks)
  /\ LET t == tasks[joined + 1]
         last == joined + 1 = Len(tasks)
     IN /\ task_await(t)
        /\ joined' = joined + 1
        /\ IF t.st = "ok"
           THEN /\ db' = update_episode_audio_path(db, t.ep, TaskDest(t))
                /\ downloaded' = Append(downloaded, <<t.ep, TaskDest(t)>>)
                /\ hist' = [hist EXCEPT !.writes =
                               Append(@, <<"download", t.ep, Some(TaskDest(t))>>)]
           ELSE /\ db' = update_episode_status(db, t.ep, Failed(FailedDownload))
                /\ hist' = [hist EXCEPT !.failed_w = @ \cup {t.ep},
                                        !.failures = @ \cup {<<t.ep, "download: ">>},
                                        !.writes = Append(@, <<"download", t.ep, None>>)]
                /\ UNCHANGED downloaded
        /\ IF last /\ stops_after_download(args.download_only, downloaded')
           THEN Finish("ok")
           ELSE /\ pc' = IF last THEN "transcribe" ELSE "join"
                /\ UNCHANGED result
  /\ UNCHANGED <<files, config, runs, podcasts, all_new, sem, tasks,
                 tr_idx, transcribed, sum_idx>>
  /\ UNCHANGED SingleVars

\* transcribe_episodes lines 393-449, one iteration, and after the last one
\* run lines 88-91.  ok is the outcome of transcribe::transcribe.
Transcribe(ok) ==
  /\ pc = "transcribe"
  /\ LET ep_id == downloaded[tr_idx + 1][1]
         e == get_episode(db, ep_id)
         transcript_file == TranscriptFile(e.podcast_id, ep_id)
         last == tr_idx + 1 = Len(downloaded)
     IN /\ tr_idx' = tr_idx + 1
        /\ IF ok
           THEN /\ files' = files \cup {transcript_file}
                /\ db' = update_episode_transcript_path(db, ep_id, transcript_file)
                /\ transcribed' = Append(transcribed, ep_id)
                /\ hist' = [hist EXCEPT !.tr_calls = @ \cup {ep_id},
                                        !.writes = Append(@, <<"transcribe", ep_id,
                                                               Some(transcript_file)>>)]
           ELSE /\ db' = update_episode_status(db, ep_id, Failed(FailedTranscribe))
                /\ hist' = [hist EXCEPT !.failed_w = @ \cup {ep_id},
                                        !.later_fail = TRUE,
                                        !.failures = @ \cup {<<ep_id, "transcribe: ">>},
                                        !.tr_calls = @ \cup {ep_id},
                                        !.writes = Append(@, <<"transcribe", ep_id, None>>)]
                /\ UNCHANGED <<files, transcribed>>
        /\ IF last /\ transcribed' = <<>>
           THEN Finish("ok")
           ELSE /\ pc' = IF last THEN "summarize" ELSE "transcribe"
                /\ UNCHANGED result
  /\ UNCHANGED <<config, runs, podcasts, all_new, sem, tasks, joined,
                 downloaded, sum_idx>>
  /\ UNCHANGED SingleVars

\* summarize_episodes lines 459-466: without an API key the phase is skipped
SummarizeSkipped ==
  /\ pc = "summarize"
  /\ ~config.api_key
  /\ pc' = "cleanup"
  /\ UNCHANGED <<db, files, config, result, runs, hist, podcasts, all_new, sem,
                 tasks, joined, downloaded, tr_idx, transcribed, sum_idx>>
  /\ UNCHANGED SingleVars

\* summarize_episodes lines 474-512, one iteration.  ok is the outcome of
\* summarize::generate_summary.
Summarize(ok) ==
  /\ pc = "summarize"
  /\ config.api_key
  /\ LET ep_id == transcribed[sum_idx + 1]
     IN /\ sum_idx' = sum_idx + 1
        /\ IF ok
           THEN /\ db' = insert_summary(db, ep_id)
                /\ hist' = [hist EXCEPT !.sum_calls = @ \cup {ep_id},
                                        !.writes = Append(@, <<"summarize", ep_id,
                                                               Some("summary")>>)]
           ELSE /\ db' = update_episode_status(db, ep_id, Failed(FailedSummarize))
                /\ hist' = [hist EXCEPT !.failed_w = @ \cup {ep_id},
                                        !.later_fail = TRUE,
                                        !.failures = @ \cup {<<ep_id, "summarize: ">>},
                                        !.sum_calls = @ \cup {ep_id},
                                        !.writes = Append(@, <<"summarize", ep_id, None>>)]
        /\ pc' = IF sum_idx + 1 = Len(transcribed) THEN "cleanup" ELSE "summarize"
  /\ UNCHANGED <<files, config, result, runs, podcasts, all_new, sem, tasks,
                 joined, downloaded, tr_idx, transcribed>>
  /\ UNCHANGED SingleVars

\* run lines 96-106: delete the downloaded audio files if configured; Ok(())
Cleanup ==
  /\ pc = "cleanup"
  /\ files' = IF config.auto_cleanup_audio
              THEN files \ {downloaded[i][2] : i \in DOMAIN downloaded}
              ELSE files
  /\ Finish("ok")
  /\ UNCHANGED <<db, config, runs, hist, podcasts, all_new, sem, tasks, joined,
                 downloaded, tr_idx, transcribed, sum_idx>>
  /\ UNCHANGED SingleVars

\* ------------------------------------------------------------- specification
EpisodeIds == {None} \cup {Some(i) : i \in 1..(db.ep_seq + 1)}
Names == {None} \cup {Some(p) : p \in Podcasts}

Single ==
  \/ clear_episode_results
  \/ SingleBegin
  \/ \E ok \in BOOLEAN : SingleDownload(ok)
  \/ \E ok \in BOOLEAN : SingleTranscribe(ok)
  \/ \E ok \in BOOLEAN : SingleSummarize(ok)

Batch ==
  \/ ResolvePodcasts
  \/ DiscoverFetchFailed
  \/ \E feed \in Feeds(Head(podcasts)) : Discover(feed)
  \/ DiscoverDone
  \/ Spawn
  \/ \E i \in DOMAIN tasks : DlCheck(i)
  \/ \E i \in DOMAIN tasks : \E ok \in BOOLEAN : DlReturn(i, ok)
  \/ Join
  \/ \E ok \in BOOLEAN : Transcribe(ok)
  \/ SummarizeSkipped
  \/ \E ok \in BOOLEAN : Summarize(ok)
  \/ Cleanup

Subscribe == \E p \in Podcasts : \E feed \in Feeds(p) : Add(p, feed)

\* every sync invocation: sync [name] [--episode id] [--download-only] [--redo]
Next ==
  \/ Subscribe
  \/ \E name \in Names, episode_id \in EpisodeIds, download_only \in BOOLEAN :
       \E redo \in (IF IsSome(episode_id) THEN BOOLEAN ELSE {FALSE}) :
         StartSync(name, episode_id, download_only, redo)
  \/ Single
  \/ Batch

Spec == Init /\ [][Next]_vars

\* batch invocations only: sync [--download-only]
NextBatch ==
  \/ Subscribe
  \/ \E download_only \in BOOLEAN : StartSync(None, None, download_only, FALSE)
  \/ Batch

SpecBatch == Init /\ [][NextBatch]_vars

\* batch invocations in which the runtime keeps running the tasks it has: a
\* spawned download returns and the orchestrator takes its next step
SpecBatchLive == Init /\ [][NextBatch]_vars /\ WF_vars(Batch)

\* the first batch invocation on a store with several subscriptions
FirstSync(download_only) ==
  /\ runs = 0
  /\ StartSync(None, None, download_only, FALSE)

\* both feeds were subscribed to before they listed an episode; downloads are
\* enabled
InitMulti ==
  /\ feed_urls = [g \in Guids |-> OwnSegment(g)]
  /\ db = add_loop(insert_podcast(add_loop(insert_podcast(EmptyDb, 1), 1, <<>>, 1), 2), 2, <<>>, 1)
  /\ files = {}
  /\ config \in [max_concurrent_downloads : 1..MaxK,
                 auto_cleanup_audio : BOOLEAN,
                 api_key : BOOLEAN]
  /\ pc = "idle"
  /\ args = [name |-> None, episode_id |-> None, download_only |-> FALSE, redo |-> FALSE]
  /\ episode = None
  /\ podcasts = <<>>
  /\ all_new = <<>>
  /\ sem = 0
  /\ tasks = <<>>
  /\ joined = 0
  /\ downloaded = <<>>
  /\ tr_idx = 0
  /\ transcribed = <<>>
  /\ sum_idx = 0
  /\ result = "ok"
  /\ runs = 0
  /\ hist = NoHist
  /\ dl_eps = <<>>
  /\ dl_sem = 0
  /\ dl_tasks = <<>>
  /\ fs_dir = <<>>
  /\ fs_data = <<>>
  /\ PollIdle
  /\ DecIdle
  /\ AudIdle
  /\ StoreIdle
  /\ CfgIdle

NextMulti ==
  \/ \E download_only \in BOOLEAN : FirstSync(download_only)
  \/ Batch

SpecMulti == InitMulti /\ [][NextMulti]_vars

\* single-episode invocations only: sync --episode id [--download-only] [--redo]
NextSingle ==
  \/ Subscribe
  \/ \E episode_id \in EpisodeIds \ {None}, download_only \in BOOLEAN, redo \in BOOLEAN :
       StartSync(None, episode_id, download_only, redo)
  \/ Single

SpecSingle == Init /\ [][NextSingle]_vars

\* ------------------------------------------------- download, at file level
\* download_episodes and download_episode with the files they create: the
\* directory maps a path to an inode, a task writes through its own handle at
\* its own position, and a response body is NumChunks chunks.
PipelineVars == <<feed_urls, db, files, pc, args, episode, podcasts, all_new,
                  sem, tasks, joined, downloaded, tr_idx, transcribed, sum_idx,
                  result, runs, hist>>

NotDl == <<PipelineVars, PollVars, DecVars, AudVars, StoreVars, CfgVars>>

DlUrls == {SameSegment(1), SameSegment(2), OtherExtension(1), OwnSegment(1)}

\* the k-th chunk of the body served for url
Chunk(url, k) == <<url, k>>
Body(url) == [k \in 1..NumChunks |-> Chunk(url, k)]
\* a byte range never written (a hole left by writing past the end)
Hole == <<"hole">>

\* what send() yields: Err for a request that got no response, otherwise the
\* response, whatever its HTTP status
Responses == {"Err", "200 OK", "404 Not Found", "500 Internal Server Error"}

InitDL ==
  /\ feed_urls \in {[g \in Guids |-> OwnSegment(g)]}
  /\ db = EmptyDb
  /\ files = {}
  /\ config \in [max_concurrent_downloads : 1..MaxK,
                 auto_cleanup_audio : {FALSE},
                 api_key : {FALSE}]
  /\ pc = "idle"
  /\ args = [name |-> None, episode_id |-> None, download_only |-> FALSE, redo |-> FALSE]
  /\ episode = None
  /\ podcasts = <<>>
  /\ all_new = <<>>
  /\ sem = 0
  /\ tasks = <<>>
  /\ joined = 0
  /\ downloaded = <<>>
  /\ tr_idx = 0
  /\ transcribed = <<>>
  /\ sum_idx = 0
  /\ result = "ok"
  /\ runs = 0
  /\ hist = NoHist
  /\ dl_eps \in [1..MaxFeedLen -> {[audio_url |-> u, podcast_id |-> 1] : u \in DlUrls}]
  /\ dl_sem = config.max_concurrent_downloads
  /\ dl_tasks = [i \in 1..MaxFeedLen |->
                   [ep |-> i, st |-> "pending", permit |-> 0, drops |-> 0,
                    fd |-> 0, off |-> 0, sent |-> 0, status |-> "none"]]
  /\ fs_dir = <<>>
  /\ fs_data = <<>>
  /\ PollIdle
  /\ DecIdle
  /\ AudIdle
  /\ StoreIdle
  /\ CfgIdle

DlDest(i) == Dest(dl_eps[i].audio_url, dl_eps[i].podcast_id)
DlTmp(i) == TmpDest(dl_eps[i].audio_url, dl_eps[i].podcast_id)
Exists(path) == path \in DOMAIN fs_dir

\* write_all through a handle at position off: overwrite in place, or extend
\* the file (leaving a hole when off is past the end)
WriteAt(data, off, chunk) ==
  IF off < Len(data)
  THEN [data EXCEPT ![off + 1] = chunk]
  ELSE data \o [k \in 1..(off - Len(data)) |-> Hole] \o <<chunk>>

\* download_episodes lines 340-355: acquire a permit and spawn the next task
DLSpawn ==
  /\ \E i \in DOMAIN dl_tasks :
       /\ dl_tasks[i].st = "pending"
       /\ \A j \in 1..(i - 1) : dl_tasks[j].st # "pending"
       /\ can_acquire(dl_sem)
       /\ dl_sem' = dl_sem - 1
       /\ dl_tasks' = [dl_tasks EXCEPT ![i].st = "start", ![i].permit = 1]
  /\ UNCHANGED <<dl_eps, fs_dir, fs_data, config>>
  /\ UNCHANGED NotDl

\* download.rs lines 24-28: if dest.exists() return Ok(dest)
DLExists(i) ==
  /\ dl_tasks[i].st = "start"
  /\ IF Exists(DlDest(i))
     THEN /\ dl_tasks' = [dl_tasks EXCEPT ![i] = TaskReturned(@, "ok")]
          /\ dl_sem' = dl_sem + dropped(dl_tasks[i], "ok")
     ELSE /\ dl_tasks' = [dl_tasks EXCEPT ![i].st = "send"]
          /\ UNCHANGED dl_sem
  /\ UNCHANGED <<dl_eps, fs_dir, fs_data, config>>
  /\ UNCHANGED NotDl

\* download.rs lines 30-35: client.get(..).send().await, Err propagated by `?`;
\* the status of the response is not looked at
DLSend(i, response) ==
  /\ dl_tasks[i].st = "send"
  /\ IF response # "Err"
     THEN /\ dl_tasks' = [dl_tasks EXCEPT ![i].st = "create",
                                          ![i].status = response]
          /\ UNCHANGED dl_sem
     ELSE /\ dl_tasks' = [dl_tasks EXCEPT ![i] = TaskReturned(@, "err")]
          /\ dl_sem' = dl_sem + dropped(dl_tasks[i], "err")
  /\ UNCHANGED <<dl_eps, fs_dir, fs_data, config>>
  /\ UNCHANGED NotDl

\* download.rs lines 48-49: File::create(dest.with_extension("part")) opens
\* the existing file truncated, or a new one
DLCreate(i) ==
  /\ dl_tasks[i].st = "create"
  /\ IF Exists(DlTmp(i))
     THEN /\ fs_data' = [fs_data EXCEPT ![fs_dir[DlTmp(i)]] = <<>>]
          /\ dl_tasks' = [dl_tasks EXCEPT ![i].st = "stream",
                                          ![i].fd = fs_dir[DlTmp(i)]]
          /\ UNCHANGED fs_dir
     ELSE /\ fs_data' = Append(fs_data, <<>>)
          /\ fs_dir' = (DlTmp(i) :> (Len(fs_data) + 1)) @@ fs_dir
          /\ dl_tasks' = [dl_tasks EXCEPT ![i].st = "stream",
                                          ![i].fd = Len(fs_data) + 1]
  /\ UNCHANGED <<dl_eps, dl_sem, config>>
  /\ UNCHANGED NotDl

\* download.rs lines 52-56, one iteration: the next chunk is written
DLChunk(i) ==
  /\ dl_tasks[i].st = "stream"
  /\ dl_tasks[i].sent < NumChunks
  /\ LET t == dl_tasks[i]
     IN /\ fs_data' = [fs_data EXCEPT ![t.fd] =
                         WriteAt(@, t.off, Chunk(dl_eps[i].audio_url, t.sent + 1))]
        /\ dl_tasks' = [dl_tasks EXCEPT ![i].off = @ + 1, ![i].sent = @ + 1]
  /\ UNCHANGED <<dl_eps, dl_sem, fs_dir, config>>
  /\ UNCHANGED NotDl

\* download.rs line 53: "Error reading download stream", the .part file stays
DLStreamError(i) ==
  /\ dl_tasks[i].st = "stream"
  /\ dl_tasks[i].sent < NumChunks
  /\ dl_tasks' = [dl_tasks EXCEPT ![i] = TaskReturned(@, "err")]
  /\ dl_sem' = dl_sem + dropped(dl_tasks[i], "err")
  /\ UNCHANGED <<dl_eps, fs_dir, fs_data, config>>
  /\ UNCHANGED NotDl

\* download.rs lines 60-62: rename(.part, dest) after the stream ended; the
\* rename fails when the .part entry is gone
DLRename(i) ==
  /\ dl_tasks[i].st = "stream"
  /\ dl_tasks[i].sent = NumChunks
  /\ IF Exists(DlTmp(i))
     THEN /\ fs_dir' = [p \in (DOMAIN fs_dir \ {DlTmp(i)}) \cup {DlDest(i)} |->
                          IF p = DlDest(i) THEN fs_dir[DlTmp(i)] ELSE fs_dir[p]]
          /\ dl_tasks' = [dl_tasks EXCEPT ![i] = TaskReturned(@, "ok")]
          /\ dl_sem' = dl_sem + dropped(dl_tasks[i], "ok")
     ELSE /\ dl_tasks' = [dl_tasks EXCEPT ![i] = TaskReturned(@, "err")]
          /\ dl_sem' = dl_sem + dropped(dl_tasks[i], "err")
          /\ UNCHANGED fs_dir
  /\ UNCHANGED <<dl_eps, fs_data, config>>
  /\ UNCHANGED NotDl

NextDL ==
  \/ DLSpawn
  \/ \E i \in DOMAIN dl_tasks : DLExists(i)
  \/ \E i \in DOMAIN dl_tasks : \E response \in Responses : DLSend(i, response)
  \/ \E i \in DOMAIN dl_tasks : DLCreate(i)
  \/ \E i \in DOMAIN dl_tasks : DLChunk(i)
  \/ \E i \in DOMAIN dl_tasks : DLStreamError(i)
  \/ \E i \in DOMAIN dl_tasks : DLRename(i)

SpecDL == InitDL /\ [][NextDL]_vars

\* ------------------------------------- transcription worker and its poller
\* transcribe_episodes / summarize_episodes (batch) and the transcribe step of
\* run_single_episode, with the spawn_blocking worker as a process of its own:
\* the worker stores progress values in the cell while the orchestrator
\* sleeps, reads, displays and tests is_finished.
NotPoll == <<PipelineVars, DlVars, DecVars, AudVars, StoreVars, CfgVars, config>>

\* values whisper's progress callback reports
Pcts == {50, 100}

\* pct.max(0) as u64
Shown(v) == IF v < 0 THEN 0 ELSE v

InitPoll ==
  /\ feed_urls \in {[g \in Guids |-> OwnSegment(g)]}
  /\ db = EmptyDb
  /\ files = {}
  /\ config \in [max_concurrent_downloads : {1},
                 auto_cleanup_audio : {FALSE},
                 api_key : {TRUE}]
  /\ pc = "idle"
  /\ args = [name |-> None, episode_id |-> None, download_only |-> FALSE, redo |-> FALSE]
  /\ episode = None
  /\ podcasts = <<>>
  /\ all_new = <<>>
  /\ sem = 0
  /\ tasks = <<>>
  /\ joined = 0
  /\ downloaded = <<>>
  /\ tr_idx = 0
  /\ transcribed = <<>>
  /\ sum_idx = 0
  /\ result = "ok"
  /\ runs = 0
  /\ hist = NoHist
  /\ dl_eps = <<>>
  /\ dl_sem = 0
  /\ dl_tasks = <<>>
  /\ fs_dir = <<>>
  /\ fs_data = <<>>
  /\ \E n \in 1..MaxFeedLen :
       /\ tp_mode \in (IF n = 1 THEN {"batch", "single"} ELSE {"batch"})
       /\ handle = [i \in 1..n |-> "none"]
       /\ progress = [i \in 1..n |-> 0]
       /\ stored = [i \in 1..n |-> 0]
       /\ pb = [i \in 1..n |-> None]
       /\ tp_written = [i \in 1..n |-> "none"]
       /\ sm_req = [i \in 1..n |-> "none"]
       /\ sm_written = [i \in 1..n |-> "none"]
  /\ tp_pc = "spawn"
  /\ tp_i = 1
  /\ pct = 0
  /\ DecIdle
  /\ AudIdle
  /\ StoreIdle
  /\ CfgIdle

\* an await that returns before the worker has finished
is_finished_early(h) == TRUE

\* a worker counts as finished once it was spawned
is_finished_spawned(h) == h # "none"

\* JoinHandle::is_finished, and the condition under which handle.await returns
is_finished(h) == h \in {"ok", "err"}

\* the closure given to spawn_blocking: the progress callback stores a value
\* (transcribe.rs lines 55-57)
WorkerStore(i, v) ==
  /\ handle[i] = "running"
  /\ stored[i] < MaxStores
  /\ progress' = [progress EXCEPT ![i] = v]
  /\ stored' = [stored EXCEPT ![i] = @ + 1]
  /\ UNCHANGED <<tp_mode, tp_pc, tp_i, handle, pct, pb, tp_written, sm_req, sm_written>>
  /\ UNCHANGED NotPoll

\* transcribe::transcribe returns Ok(transcript) or Err
WorkerReturn(i, ok) ==
  /\ handle[i] = "running"
  /\ handle' = [handle EXCEPT ![i] = IF ok THEN "ok" ELSE "err"]
  /\ UNCHANGED <<tp_mode, tp_pc, tp_i, progress, stored, pct, pb, tp_written,
                 sm_req, sm_written>>
  /\ UNCHANGED NotPoll

\* sync.rs lines 396-406 (batch), 233-245 (single): a new bar, a new cell, and
\* the worker is spawned
PollSpawn ==
  /\ tp_pc = "spawn"
  /\ handle' = [handle EXCEPT ![tp_i] = "running"]
  /\ progress' = [progress EXCEPT ![tp_i] = 0]
  /\ tp_pc' = "sleep"
  /\ UNCHANGED <<tp_mode, tp_i, stored, pct, pb, tp_written, sm_req, sm_written>>
  /\ UNCHANGED NotPoll

\* tokio::time::sleep(200 ms).await
PollSleep ==
  /\ tp_pc = "sleep"
  /\ tp_pc' = "load"
  /\ UNCHANGED <<tp_mode, tp_i, handle, progress, stored, pct, pb, tp_written,
                 sm_req, sm_written>>
  /\ UNCHANGED NotPoll

\* let pct = progress.load(Relaxed)
PollLoad ==
  /\ tp_pc = "load"
  /\ pct' = progress[tp_i]
  /\ tp_pc' = "display"
  /\ UNCHANGED <<tp_mode, tp_i, handle, progress, stored, pb, tp_written,
                 sm_req, sm_written>>
  /\ UNCHANGED NotPoll

\* pb.set_position(pct.max(0) as u64)
PollDisplay ==
  /\ tp_pc = "display"
  /\ pb' = [pb EXCEPT ![tp_i] = Some(Shown(pct))]
  /\ tp_pc' = "check"
  /\ UNCHANGED <<tp_mode, tp_i, handle, progress, stored, pct, tp_written,
                 sm_req, sm_written>>
  /\ UNCHANGED NotPoll

\* if handle.is_finished() { break }
PollCheck ==
  /\ tp_pc = "check"
  /\ tp_pc' = IF is_finished(handle[tp_i]) THEN "await" ELSE "sleep"
  /\ UNCHANGED <<tp_mode, tp_i, handle, progress, stored, pct, pb, tp_written,
                 sm_req, sm_written>>
  /\ UNCHANGED NotPoll

\* the loop moves to the next episode, or to the summarize phase
PollNext ==
  IF tp_i < Len(handle)
  THEN tp_i' = tp_i + 1 /\ tp_pc' = "spawn"
  ELSE IF \E i \in DOMAIN tp_written : tp_written'[i] = "transcript_path"
  THEN tp_i' = 1 /\ tp_pc' = "send"
  ELSE tp_i' = tp_i /\ tp_pc' = "done"

\* batch, sync.rs lines 417-448: handle.await, then the transcript path or the
\* Failed status is written
PollAwaitBatch ==
  /\ tp_pc = "await"
  /\ tp_mode = "batch"
  /\ is_finished(handle[tp_i])
  /\ tp_written' = [tp_written EXCEPT ![tp_i] =
                      IF handle[tp_i] = "err" THEN "failed" ELSE "transcript_path"]
  /\ handle' = [handle EXCEPT ![tp_i] = IF @ = "running" THEN @ ELSE "joined"]
  /\ PollNext
  /\ UNCHANGED <<tp_mode, progress, stored, pct, pb, sm_req, sm_written>>
  /\ UNCHANGED NotPoll

\* single, sync.rs lines 259-271: handle.await??, pb.set_position(100), then
\* the transcript path is written; an Err leaves the function
PollAwaitSingle ==
  /\ tp_pc = "await"
  /\ tp_mode = "single"
  /\ is_finished(handle[tp_i])
  /\ IF handle[tp_i] = "err"
     THEN /\ tp_pc' = "done"
          /\ UNCHANGED <<tp_i, pb, tp_written>>
     ELSE /\ pb' = [pb EXCEPT ![tp_i] = Some(100)]
          /\ tp_written' = [tp_written EXCEPT ![tp_i] = "transcript_path"]
          /\ tp_i' = 1
          /\ tp_pc' = "send"
  /\ handle' = [handle EXCEPT ![tp_i] = IF @ = "running" THEN @ ELSE "joined"]
  /\ UNCHANGED <<tp_mode, progress, stored, pct, sm_req, sm_written>>
  /\ UNCHANGED NotPoll

\* the episodes the summarize loop goes over: those transcribed
RECURSIVE NextTranscribed(_, _)
NextTranscribed(w, i) ==
  IF i > Len(w) THEN 0
  ELSE IF w[i] = "transcript_path" THEN i ELSE NextTranscribed(w, i + 1)

\* summarize_episodes lines 474-490: generate_summary(..) is called
SumSend ==
  /\ tp_pc = "send"
  /\ LET i == NextTranscribed(tp_written, tp_i)
     IN IF i = 0
        THEN /\ tp_pc' = "done"
             /\ UNCHANGED <<tp_i, sm_req>>
        ELSE /\ sm_req' = [sm_req EXCEPT ![i] = "sent"]
             /\ tp_i' = i
             /\ tp_pc' = "answer"
  /\ UNCHANGED <<tp_mode, handle, progress, stored, pct, pb, tp_written, sm_written>>
  /\ UNCHANGED NotPoll

\* .await returns Ok(result) or Err(e)
SumAnswer(ok) ==
  /\ tp_pc = "answer"
  /\ sm_req' = [sm_req EXCEPT ![tp_i] = IF ok THEN "ok" ELSE "err"]
  /\ tp_pc' = "write"
  /\ UNCHANGED <<tp_mode, tp_i, handle, progress, stored, pct, pb, tp_written, sm_written>>
  /\ UNCHANGED NotPoll

\* lines 491-511 (batch): insert_summary or Failed; lines 306-316 (single):
\* an Err has left the function by `?`
SumWrite ==
  /\ tp_pc = "write"
  /\ IF sm_req[tp_i] = "err" /\ tp_mode = "single"
     THEN /\ tp_pc' = "done"
          /\ UNCHANGED <<tp_i, sm_written>>
     ELSE /\ sm_written' = [sm_written EXCEPT ![tp_i] =
                              IF sm_req[tp_i] = "ok" THEN "summary" ELSE "failed"]
          /\ tp_i' = tp_i + 1
          /\ tp_pc' = "send"
  /\ UNCHANGED <<tp_mode, handle, progress, stored, pct, pb, tp_written, sm_req>>
  /\ UNCHANGED NotPoll

NextPoll ==
  \/ \E i \in DOMAIN handle : \E v \in Pcts : WorkerStore(i, v)
  \/ \E i \in DOMAIN handle : \E ok \in BOOLEAN : WorkerReturn(i, ok)
  \/ PollSpawn
  \/ PollSleep
  \/ PollLoad
  \/ PollDisplay
  \/ PollCheck
  \/ PollAwaitBatch
  \/ PollAwaitSingle
  \/ SumSend
  \/ \E ok \in BOOLEAN : SumAnswer(ok)
  \/ SumWrite

SpecPoll == InitPoll /\ [][NextPoll]_vars

\* the steps of the orchestrator's poll loop: the sleep returns and the task is
\* scheduled again by the runtime, whatever the blocking worker does
PollLoop ==
  \/ PollSleep
  \/ PollLoad
  \/ PollDisplay
  \/ PollCheck
  \/ PollAwaitBatch
  \/ PollAwaitSingle

SpecPollLive == InitPoll /\ [][NextPoll]_vars /\ WF_vars(PollLoop)

\* ------------------------------------------------------- ChunkedAudioDecoder
\* audio.rs ChunkedAudioDecoder.  What format.next_packet() and
\* decoder.decode() will yield is a sequence of events; past its end
\* next_packet returns Err (end of stream).  An "audio" packet decodes to one
\* second of source samples, so chunk_samples.len() < max_source_samples is
\* Len(chunk) < max_seconds.
PacketKinds == {"audio", "other_track", "decode_error", "reset_required", "fatal"}

RECURSIVE Streams(_)
Streams(n) ==
  IF n = 0 THEN {<<>>}
  ELSE Streams(n - 1) \cup
       {Append(f, k) : f \in {g \in Streams(n - 1) : Len(g) = n - 1}, k \in PacketKinds}

\* the pipeline at rest, nothing subscribed
PipelineIdle ==
  /\ feed_urls \in {[g \in Guids |-> OwnSegment(g)]}
  /\ db = EmptyDb
  /\ files = {}
  /\ config \in [max_concurrent_downloads : {1},
                 auto_cleanup_audio : {FALSE},
                 api_key : {TRUE}]
  /\ pc = "idle"
  /\ args = [name |-> None, episode_id |-> None, download_only |-> FALSE, redo |-> FALSE]
  /\ episode = None
  /\ podcasts = <<>>
  /\ all_new = <<>>
  /\ sem = 0
  /\ tasks = <<>>
  /\ joined = 0
  /\ downloaded = <<>>
  /\ tr_idx = 0
  /\ transcribed = <<>>
  /\ sum_idx = 0
  /\ result = "ok"
  /\ runs = 0
  /\ hist = NoHist

\* ChunkedAudioDecoder::open returned Ok: finished = false
InitDec ==
  /\ PipelineIdle
  /\ dl_eps = <<>>
  /\ dl_sem = 0
  /\ dl_tasks = <<>>
  /\ fs_dir = <<>>
  /\ fs_data = <<>>
  /\ PollIdle
  /\ AudIdle
  /\ StoreIdle
  /\ CfgIdle
  /\ decoder \in [format : Streams(MaxPackets), finished : {FALSE},
                  channels : {1, 2}, resampled : BOOLEAN]
  /\ chunk_out = None
  /\ dec_hist = [calls |-> 0, exhausted |-> FALSE, source |-> decoder.format,
                 returned |-> <<>>, max_seconds |-> 0, hit_end |-> FALSE]

\* the `while chunk_samples.len() < max_source_samples` loop, lines 134-162:
\* the packets left, the samples collected (a packet's samples are named by
\* the number of packets from it to the end), and whether finished was set
RECURSIVE read_packets(_, _, _)
read_packets(format, chunk, max_seconds) ==
  IF Len(chunk) >= max_seconds
  THEN [format |-> format, chunk |-> chunk, finished |-> FALSE]
  ELSE IF format = <<>>
  THEN \* next_packet: Err(_) at the end of the stream
       [format |-> format, chunk |-> chunk, finished |-> TRUE]
  ELSE LET p == Head(format)
       IN CASE p = "audio" ->
                 read_packets(Tail(format), Append(chunk, Len(format)), max_seconds)
            [] p \in {"other_track", "decode_error", "reset_required"} ->
                 \* continue
                 read_packets(Tail(format), chunk, max_seconds)
            [] OTHER ->
                 \* decode: Err(_): finished = true; break
                 [format |-> Tail(format), chunk |-> chunk, finished |-> TRUE]

\* the first packet of the chunk is lost
chunk_result_less(d, chunk) ==
  IF Len(chunk) <= 1 THEN None
  ELSE Some([samples |-> Tail(chunk),
             mono |-> d.channels > 1,
             resampled |-> d.resampled])

\* lines 164-178: None for an empty chunk, else the samples made mono and
\* resampled as the track requires
chunk_result(d, chunk) ==
  IF chunk = <<>> THEN None
  ELSE Some([samples |-> chunk,
             mono |-> d.channels > 1,
             resampled |-> d.resampled])

\* ChunkedAudioDecoder::next_chunk(max_seconds)
NextChunk(max_seconds) ==
  /\ dec_hist.calls < MaxCalls
  /\ IF decoder.finished
     THEN /\ chunk_out' = None
          /\ UNCHANGED decoder
     ELSE LET r == read_packets(decoder.format, <<>>, max_seconds)
          IN /\ decoder' = [decoder EXCEPT !.format = r.format,
                                           !.finished = r.finished]
             /\ chunk_out' = chunk_result(decoder, r.chunk)
  /\ dec_hist' = [calls |-> dec_hist.calls + 1,
                  exhausted |-> dec_hist.exhausted \/ chunk_out' = None,
                  source |-> dec_hist.source,
                  returned |-> IF chunk_out' = None THEN dec_hist.returned
                               ELSE dec_hist.returned \o Unwrap(chunk_out').samples,
                  max_seconds |-> max_seconds,
                  hit_end |-> decoder'.finished]
  /\ UNCHANGED <<PipelineVars, DlVars, PollVars, AudVars, StoreVars, CfgVars, config>>

NextDec == \E max_seconds \in 0..MaxSeconds : NextChunk(max_seconds)

SpecDec == InitDec /\ [][NextDec]_vars

\* ============================================================ audio functions
\* audio.rs stereo_to_mono and resample, called on bounded inputs.  The index
\* arithmetic of resample is f64 arithmetic: it is computed here with the 53-bit
\* significand and round-to-nearest-even of IEEE 754 binary64, on naturals wider
\* than TLC's integers.

\* ---- naturals as little-endian sequences of NumLimbs digits in base Limb
Limb == 32768
NumLimbs == 8

\* the digits of x from the i-th on, with the carry c brought in
RECURSIVE carry(_, _, _)
carry(x, i, c) ==
  IF i > NumLimbs THEN <<>>
  ELSE <<(x[i] + c) % Limb>> \o carry(x, i + 1, (x[i] + c) \div Limb)

\* n below 2^31 as a natural
big(n) == carry([i \in 1..NumLimbs |-> IF i = 1 THEN n ELSE 0], 1, 0)

big_add(x, y) == carry([i \in 1..NumLimbs |-> x[i] + y[i]], 1, 0)
\* x - y for x >= y
big_sub(x, y) == carry([i \in 1..NumLimbs |-> x[i] - y[i]], 1, 0)
\* x * k for k < Limb
big_mul_small(x, k) == carry([i \in 1..NumLimbs |-> x[i] * k], 1, 0)

RECURSIVE big_lt_from(_, _, _)
big_lt_from(x, y, i) ==
  IF i = 0 THEN FALSE
  ELSE IF x[i] # y[i] THEN x[i] < y[i]
  ELSE big_lt_from(x, y, i - 1)

big_lt(x, y) == big_lt_from(x, y, NumLimbs)
big_is_zero(x) == \A i \in 1..NumLimbs : x[i] = 0
big_odd(x) == x[1] % 2 = 1

big_half(x) ==
  carry([i \in 1..NumLimbs |->
           (x[i] \div 2) + (IF i < NumLimbs THEN (x[i + 1] % 2) * (Limb \div 2) ELSE 0)],
        1, 0)

RECURSIVE int_bits(_)
int_bits(n) == IF n = 0 THEN 0 ELSE 1 + int_bits(n \div 2)

RECURSIVE top_limb(_, _)
top_limb(x, i) == IF i = 0 \/ x[i] # 0 THEN i ELSE top_limb(x, i - 1)

\* number of significant bits of x
bit_len(x) ==
  LET t == top_limb(x, NumLimbs)
  IN IF t = 0 THEN 0 ELSE 15 * (t - 1) + int_bits(x[t])

\* x * 2^k (the bits shifted out at the top are lost) and x \div 2^k
shl(x, k) ==
  LET ls == k \div 15
      pw == 2 ^ (k % 15)
      at(j) == IF j >= 1 THEN x[j] ELSE 0
  IN carry([i \in 1..NumLimbs |->
              ((at(i - ls) * pw) % Limb) + (at(i - ls - 1) \div (Limb \div pw))], 1, 0)

shr(x, k) ==
  LET ls == k \div 15
      pw == 2 ^ (k % 15)
      at(j) == IF j <= NumLimbs THEN x[j] ELSE 0
  IN carry([i \in 1..NumLimbs |->
              (at(i + ls) \div pw) + (at(i + ls + 1) % pw) * (Limb \div pw)], 1, 0)

\* bit i (1 = lowest) of x
bit_at(x, i) == (x[((i - 1) \div 15) + 1] \div (2 ^ ((i - 1) % 15))) % 2

to_int(x) == x[1] + x[2] * Limb + x[3] * Limb * Limb

\* one step of binary long division by b: bring down the next bit of the dividend
div_step(st, b, bit) ==
  LET r1 == big_add(big_mul_small(st.r, 2), big(bit))
  IN IF big_lt(r1, b)
     THEN [q |-> big_mul_small(st.q, 2), r |-> r1]
     ELSE [q |-> big_add(big_mul_small(st.q, 2), big(1)), r |-> big_sub(r1, b)]

\* the division steps for bits hi down to lo of a, by halves (the test on st.q
\* has TLC compute the steps before hi first)
RECURSIVE div_range(_, _, _, _, _)
div_range(a, b, st, hi, lo) ==
  IF hi < lo \/ st.q = <<>> THEN st
  ELSE IF hi = lo THEN div_step(st, b, bit_at(a, hi))
  ELSE LET mid == (hi + lo) \div 2
       IN div_range(a, b, div_range(a, b, st, hi, mid + 1), mid, lo)

\* quotient and remainder of a by b
big_divmod(a, b) == div_range(a, b, [q |-> big(0), r |-> big(0)], bit_len(a), 1)

\* ---- binary floating point: the value m * 2^e, m a natural of at most p bits
\* round the exact m (with sticky set when bits below m were lost) to p bits,
\* to nearest, ties to even; de is the number of bits dropped
round_to(p, m, sticky) ==
  LET n == bit_len(m)
      d == n - p
      q == shr(m, d)
      rem == big_sub(m, shl(q, d))
      half == shl(big(1), d - 1)
      up == \/ big_lt(half, rem)
            \/ rem = half /\ (sticky \/ big_odd(q))
      q1 == IF up THEN big_add(q, big(1)) ELSE q
  IN IF n <= p THEN [m |-> m, de |-> 0]
     ELSE IF bit_len(q1) > p THEN [m |-> big_half(q1), de |-> d + 1]
     ELSE [m |-> q1, de |-> d]

F64_MANTISSA_DIGITS == 53
F32_MANTISSA_DIGITS == 24

\* n as f64, for n below 2^31
f64_of(n) == [m |-> big(n), e |-> 0]

\* x / y in f64, y nonzero
f64_div(x, y) ==
  IF big_is_zero(x.m) THEN x
  ELSE LET k == bit_len(y.m) + F64_MANTISSA_DIGITS + 1 - bit_len(x.m)
           dm == big_divmod(shl(x.m, k), y.m)
           r == round_to(F64_MANTISSA_DIGITS, dm.q, ~big_is_zero(dm.r))
       IN [m |-> r.m, e |-> x.e - y.e - k + r.de]

\* i as f64 * y, for i below Limb
f64_mul_int(i, y) ==
  LET r == round_to(F64_MANTISSA_DIGITS, big_mul_small(y.m, i), FALSE)
  IN [m |-> r.m, e |-> y.e + r.de]

\* the integer part of x as a natural
f64_trunc(x) == IF x.e >= 0 THEN shl(x.m, x.e) ELSE shr(x.m, 0 - x.e)

\* x as usize
f64_as_usize(x) == to_int(f64_trunc(x))

\* x - (x as usize) as f64, which f64 subtraction computes exactly
f64_fract(x) ==
  IF x.e >= 0 THEN [m |-> big(0), e |-> 0]
  ELSE [m |-> big_sub(x.m, shl(f64_trunc(x), 0 - x.e)), e |-> x.e]

\* x.ceil()
f64_ceil(x) ==
  IF big_is_zero(f64_fract(x).m) THEN [m |-> f64_trunc(x), e |-> 0]
  ELSE [m |-> big_add(f64_trunc(x), big(1)), e |-> 0]

\* x as f32
f64_as_f32(x) ==
  LET r == round_to(F32_MANTISSA_DIGITS, x.m, FALSE)
  IN [m |-> r.m, e |-> x.e + r.de]

\* ---- the functions
MaxSamples == 4
MaxChannels == 3

\* f32 sample values, as fractions in lowest terms.  The inputs are small
\* integers, which f32 adds exactly; a quotient that is not an integer stands for
\* the f32 nearest to it.
f32(num, den) == [num |-> num, den |-> den]
SampleVals == {f32(-1, 1), f32(2, 1)}
Rates == {2, 3, 47}

RECURSIVE SeqsUpTo(_, _)
SeqsUpTo(S, n) == IF n = 0 THEN {<<>>} ELSE SeqsUpTo(S, n - 1) \cup [1..n -> S]

RECURSIVE gcd(_, _)
gcd(a, b) == IF b = 0 THEN a ELSE gcd(b, a % b)

RECURSIVE sum(_)
sum(frame) == IF frame = <<>> THEN 0 ELSE Head(frame).num + sum(Tail(frame))

\* the frame's sum halved, whatever the number of channels
frame_mean_of_two(frame, channels) ==
  IF sum(frame) % 2 = 0 THEN f32(sum(frame) \div 2, 1) ELSE f32(sum(frame), 2)

\* frame.iter().sum::<f32>() / channels as f32
frame_mean(frame, channels) ==
  LET s == sum(frame)
      g == gcd(IF s < 0 THEN 0 - s ELSE s, channels)
  IN f32(s \div g, channels \div g)

\* slice::chunks_exact(channels): the number of complete frames; the remainder
\* of the slice is left out (channels = 0 panics; next_chunk calls with channels > 1)
chunks_exact(len, channels) == len \div channels

\* audio.rs lines 13-18
stereo_to_mono(s, channels) ==
  [k \in 1..chunks_exact(Len(s), channels) |->
     frame_mean([j \in 1..channels |-> s[(k - 1) * channels + j]], channels)]

\* the weights of the two samples exchanged
lerp_swapped(a, b, frac) ==
  IF big_is_zero(frac.m) THEN b
  ELSE [a |-> b, b |-> a, frac |-> [m |-> to_int(frac.m), e |-> frac.e]]

\* audio.rs line 35: samples[idx] * (1.0 - frac) + samples[idx + 1] * frac in f32.
\* With frac = 0 this is a; otherwise the value is kept as the operands it is
\* computed from.
lerp(a, b, frac) ==
  IF big_is_zero(frac.m) THEN a
  ELSE [a |-> a, b |-> b, frac |-> [m |-> to_int(frac.m), e |-> frac.e]]

\* audio.rs lines 30-43, the body of the loop for one i
resample_at(s, ratio, i) ==
  LET src_pos == f64_mul_int(i, ratio)
      idx == f64_as_usize(src_pos)
      frac == f64_as_f32(f64_fract(src_pos))
  IN IF idx + 1 < Len(s) THEN lerp(s[idx + 1], s[idx + 2], frac)
     ELSE IF idx < Len(s) THEN s[idx + 1]
     ELSE f32(0, 1)

\* audio.rs line 22: if from_rate == to_rate || samples.is_empty()
returns_input(s, from_rate, to_rate) == from_rate = to_rate \/ s = <<>>

\* audio.rs lines 26-27
resample_ratio(from_rate, to_rate) == f64_div(f64_of(from_rate), f64_of(to_rate))
resample_out_len(len, ratio) == f64_as_usize(f64_ceil(f64_div(f64_of(len), ratio)))

\* an early return with a new, empty Vec
to_vec_empty(s) == <<>>

\* audio.rs line 23: samples.to_vec()
to_vec(s) == s

\* audio.rs lines 21-46
resample(s, from_rate, to_rate) ==
  IF returns_input(s, from_rate, to_rate) THEN to_vec(s)
  ELSE LET ratio == resample_ratio(from_rate, to_rate)
           out_len == resample_out_len(Len(s), ratio)
       IN [i \in 1..out_len |-> resample_at(s, ratio, i - 1)]

InitAudio ==
  /\ PipelineIdle
  /\ dl_eps = <<>>
  /\ dl_sem = 0
  /\ dl_tasks = <<>>
  /\ fs_dir = <<>>
  /\ fs_data = <<>>
  /\ PollIdle
  /\ DecIdle
  /\ StoreIdle
  /\ CfgIdle
  /\ samples \in SeqsUpTo(SampleVals, MaxSamples)
  /\ au_call = [f |-> "none"]
  /\ au_out = <<>>

NotAud == <<PipelineVars, DlVars, PollVars, DecVars, StoreVars, CfgVars, config>>

\* next_chunk line 169: stereo_to_mono(&chunk_samples, self.channels)
StereoToMono(channels) ==
  /\ au_call.f = "none"
  /\ au_call' = [f |-> "stereo_to_mono", samples |-> samples, channels |-> channels]
  /\ au_out' = stereo_to_mono(samples, channels)
  /\ samples' = au_out'
  /\ UNCHANGED NotAud

\* next_chunk line 175: resample(&mono, self.source_rate, WHISPER_SAMPLE_RATE),
\* on the decoded samples or on the output of stereo_to_mono
Resample(from_rate, to_rate) ==
  /\ au_call.f \in {"none", "stereo_to_mono"}
  /\ au_call' = [f |-> "resample", samples |-> samples,
                 from_rate |-> from_rate, to_rate |-> to_rate]
  /\ au_out' = resample(samples, from_rate, to_rate)
  /\ UNCHANGED samples
  /\ UNCHANGED NotAud

NextAudio ==
  \/ \E channels \in 1..MaxChannels : StereoToMono(channels)
  \/ \E from_rate \in Rates, to_rate \in Rates : Resample(from_rate, to_rate)

SpecAudio == InitAudio /\ [][NextAudio]_vars

\* ============================================================ store operations
\* The Database calls and the remove command, made one after another on one
\* store.
MaxEpisodes == 2
MaxSummaries == 2
MaxOps == 6
\* seconds the clock advances
MaxClock == 1

\* EpisodeStatus values: the four plain ones and Failed with some reasons, the
\* empty string and "unknown" among them
StatusValues ==
  {<<"New">>, <<"Downloaded">>, <<"Transcribed">>, <<"Summarized">>,
   Failed(<<>>), Failed(<<"unknown">>), Failed(FailedDownload)}

\* db.rs map_episode line 374: the status of the Episode returned for a row
map_episode_status(row) == from_db(row.status, row.fail_reason)

\* the ids of the episode rows of podcast p
EpisodesOfPodcast(d, p) == {id \in DOMAIN d.episodes : d.episodes[id].podcast_id = p}

\* DELETE FROM podcasts with the foreign keys not enforced: the podcast row only
delete_podcast_no_cascade(d, p) == [d EXCEPT !.podcasts = @ \ {p}]

\* db.rs delete_podcast.  The connection has PRAGMA foreign_keys=ON (open,
\* line 18) and both child tables are declared ON DELETE CASCADE (migrate).
delete_podcast(d, p) ==
  LET gone == EpisodesOfPodcast(d, p)
  IN [d EXCEPT !.podcasts = @ \ {p},
               !.episodes = [id \in (DOMAIN @) \ gone |-> @[id]],
               !.summaries = SelectSeq(@, LAMBDA r : r.episode_id \notin gone)]

\* summaries.created_at, DEFAULT (datetime('now')): a row inserted by this call
\* gets the current second, a deleted row's entry goes with it
stamp(d2, c, t) ==
  LET ids == {d2.summaries[i].id : i \in DOMAIN d2.summaries}
  IN {x \in c : x[1] \in ids} \cup {<<id, t>> : id \in ids \ {x[1] : x \in c}}

Stamped ==
  /\ created_at' = stamp(db', created_at, now)
  /\ UNCHANGED now

\* get_summary_by_episode: ORDER BY created_at DESC LIMIT 1.  The rows it may
\* return: among rows with the same created_at the order is not defined.
get_summary_by_episode(d, c, episode_id) ==
  LET rows == {d.summaries[i] : i \in SummariesOf(d, episode_id)}
      at(r) == CHOOSE t \in 0..MaxClock : <<r.id, t>> \in c
  IN {r \in rows : \A q \in rows : at(q) <= at(r)}

\* find_podcast_by_name: a name is modelled by the set of podcasts whose title
\* contains it; the query has no ORDER BY, any matching row may come first
find_podcast_by_name(d, name) == name \cap d.podcasts

InitStore ==
  /\ PipelineIdle
  /\ dl_eps = <<>>
  /\ dl_sem = 0
  /\ dl_tasks = <<>>
  /\ fs_dir = <<>>
  /\ fs_data = <<>>
  /\ PollIdle
  /\ DecIdle
  /\ AudIdle
  /\ StoreIdle
  /\ CfgIdle

NotStore == <<feed_urls, config, pc, args, episode, podcasts, all_new, sem, tasks, joined,
              downloaded, tr_idx, transcribed, sum_idx, result, runs, hist,
              DlVars, PollVars, DecVars, AudVars, CfgVars>>

\* the record of a call: what was called, on which row, with which arguments,
\* and the number of calls made so far
Op(name, id, status, purge) ==
  [op |-> name, id |-> id, status |-> status, purge |-> purge, n |-> last_op.n + 1]

StInsertPodcast(p) ==
  /\ last_op.n < MaxOps
  /\ p \notin db.podcasts
  /\ db' = insert_podcast(db, p)
  /\ last_op' = Op("insert_podcast", p, <<"New">>, FALSE)
  /\ UNCHANGED files
  /\ Stamped
  /\ UNCHANGED NotStore

\* the insert fails on the foreign key for a podcast that is not stored
StInsertEpisode(p, g, audio_url) ==
  /\ last_op.n < MaxOps
  /\ p \in db.podcasts
  /\ db.ep_seq < MaxEpisodes
  /\ db' = insert_episode(db, p, g, audio_url)
  /\ last_op' = Op("insert_episode", db'.last_rowid, <<"New">>, FALSE)
  /\ UNCHANGED files
  /\ Stamped
  /\ UNCHANGED NotStore

\* a download stored and recorded
StAudio(id) ==
  /\ last_op.n < MaxOps
  /\ has_episode(db, id)
  /\ LET path == Dest(db.episodes[id].audio_url, db.episodes[id].podcast_id)
     IN /\ files' = files \cup {path}
        /\ db' = update_episode_audio_path(db, id, path)
  /\ last_op' = Op("update_episode_audio_path", id, <<"Downloaded">>, FALSE)
  /\ Stamped
  /\ UNCHANGED NotStore

\* a transcript stored and recorded
StTranscript(id) ==
  /\ last_op.n < MaxOps
  /\ has_episode(db, id)
  /\ LET path == TranscriptFile(db.episodes[id].podcast_id, id)
     IN /\ files' = files \cup {path}
        /\ db' = update_episode_transcript_path(db, id, path)
  /\ last_op' = Op("update_episode_transcript_path", id, <<"Transcribed">>, FALSE)
  /\ Stamped
  /\ UNCHANGED NotStore

StUpdateStatus(id, status) ==
  /\ last_op.n < MaxOps
  /\ has_episode(db, id)
  /\ db' = update_episode_status(db, id, status)
  /\ last_op' = Op("update_episode_status", id, status, FALSE)
  /\ UNCHANGED files
  /\ Stamped
  /\ UNCHANGED NotStore

StInsertSummary(id) ==
  /\ last_op.n < MaxOps
  /\ has_episode(db, id)
  /\ db.sum_seq < MaxSummaries
  /\ db' = insert_summary(db, id)
  /\ last_op' = Op("insert_summary", id, <<"Summarized">>, FALSE)
  /\ UNCHANGED files
  /\ Stamped
  /\ UNCHANGED NotStore

\* commands/remove.rs run: name, --yes, the answer typed at the prompt, --purge.
\* The purge argument is bound to _purge and never read.
Remove(name, yes, answer, purge) ==
  /\ last_op.n < MaxOps
  /\ IF find_podcast_by_name(db, name) = {}
     THEN /\ UNCHANGED db
          /\ last_op' = Op("remove: not found", 0, <<"New">>, purge)
     ELSE IF ~yes /\ ~answer
     THEN /\ UNCHANGED db
          /\ last_op' = Op("remove: cancelled", 0, <<"New">>, purge)
     ELSE \E p \in find_podcast_by_name(db, name) :
            /\ db' = delete_podcast(open(db), p)
            /\ last_op' = Op("remove", p, <<"New">>, purge)
  /\ UNCHANGED files
  /\ Stamped
  /\ UNCHANGED NotStore

\* a second passes
ClockTick ==
  /\ now < MaxClock
  /\ now' = now + 1
  /\ UNCHANGED <<db, files, last_op, created_at>>
  /\ UNCHANGED NotStore

NextStore ==
  \/ \E p \in StorePodcasts : StInsertPodcast(p)
  \/ \E p \in StorePodcasts, g \in Guids, t \in UrlTables : StInsertEpisode(p, g, t[g])
  \/ \E id \in 1..MaxEpisodes : StAudio(id)
  \/ \E id \in 1..MaxEpisodes : StTranscript(id)
  \/ \E id \in 1..MaxEpisodes, status \in StatusValues : StUpdateStatus(id, status)
  \/ \E id \in 1..MaxEpisodes : StInsertSummary(id)
  \/ \E name \in SUBSET StorePodcasts, yes \in BOOLEAN, answer \in BOOLEAN, purge \in BOOLEAN :
       Remove(name, yes, answer, purge)
  \/ ClockTick

SpecStore == InitStore /\ [][NextStore]_vars

\* ================================================================ config set
\* commands/config_set.rs.  A key is a string; a value is the sequence of its
\* characters, at most four of them, so a number stays far below 2^32 and
\* u32's parse never overflows here.
MaxSets == 2

Keys == {"cpu_percent", "whisper_model", "language", "initial_prompt", "api_base_url",
         "api_key_env", "model", "max_tokens", "auto_cleanup_audio", "chinese_conversion",
         "nonexistent"}

Values ==
  {<<>>, <<"0">>, <<"1">>, <<"1", "0", "0">>, <<"1", "0", "1">>, <<"+", "5">>, <<"-", "1">>,
   <<"a", "b", "c">>, <<"8", "1", "9", "2">>, <<"1", "x">>,
   <<"t", "r", "u", "e">>, <<"f", "a", "l", "s", "e">>, <<"T", "r", "u", "e">>,
   <<"y", "e", "s">>, <<"s", "2", "t">>, <<"S", "2", "T">>, <<"z", "h">>}

DigitValue ==
  ("0" :> 0) @@ ("1" :> 1) @@ ("2" :> 2) @@ ("3" :> 3) @@ ("4" :> 4) @@
  ("5" :> 5) @@ ("6" :> 6) @@ ("7" :> 7) @@ ("8" :> 8) @@ ("9" :> 9)

RECURSIVE digits_value(_, _)
digits_value(ds, acc) ==
  IF ds = <<>> THEN acc
  ELSE digits_value(Tail(ds), acc * 10 + DigitValue[Head(ds)])

\* str::parse::<u32>: an optional leading '+', then one or more decimal digits
parse_u32(value) ==
  LET ds == IF value # <<>> /\ Head(value) = "+" THEN Tail(value) ELSE value
  IN IF ds = <<>> \/ \E i \in DOMAIN ds : ds[i] \notin DOMAIN DigitValue
     THEN None
     ELSE Some(digits_value(ds, 0))

\* str::parse::<bool>: exactly "true" or "false"
parse_bool(value) ==
  IF value = <<"t", "r", "u", "e">> THEN Some(TRUE)
  ELSE IF value = <<"f", "a", "l", "s", "e">> THEN Some(FALSE)
  ELSE None

\* str::to_lowercase, on the letters the values are written with
to_lowercase(value) ==
  [i \in DOMAIN value |->
     IF value[i] = "S" THEN "s" ELSE IF value[i] = "T" THEN "t" ELSE value[i]]

\* lines 55-57: the variants accepted for chinese_conversion
valid ==
  {<<"s", "2", "t">>, <<"s", "2", "t", "w">>, <<"s", "2", "t", "w", "p">>,
   <<"s", "2", "h", "k">>, <<"t", "2", "s">>, <<"t", "w", "2", "s">>,
   <<"t", "w", "2", "s", "p">>, <<"h", "k", "2", "s">>, <<"t", "2", "t", "w">>,
   <<"t", "2", "h", "k">>}

\* a range that lets 0 in
contains_from_zero(v) == v >= 0 /\ v <= 100

\* line 19: (1..=100).contains(&v)
contains(v) == v >= 1 /\ v <= 100

Applied(c) == [ok |-> TRUE, config |-> c]
Bailed(c) == [ok |-> FALSE, config |-> c]

\* validate_and_apply(config, key, value): Ok or Err, and the config as the
\* call leaves it
validate_and_apply(c, key, value) ==
  CASE key = "cpu_percent" ->
         LET v == parse_u32(value)
         IN IF ~IsSome(v) THEN Bailed(c)
            ELSE IF ~contains(Unwrap(v)) THEN Bailed(c)
            ELSE Applied([c EXCEPT !.transcription.cpu_percent = Unwrap(v)])
    [] key = "whisper_model" -> Applied([c EXCEPT !.transcription.whisper_model = value])
    [] key = "language" -> Applied([c EXCEPT !.transcription.language = Some(value)])
    [] key = "initial_prompt" ->
         Applied([c EXCEPT !.transcription.initial_prompt = Some(value)])
    [] key = "api_base_url" -> Applied([c EXCEPT !.summarization.api_base_url = value])
    [] key = "api_key_env" -> Applied([c EXCEPT !.summarization.api_key_env = value])
    [] key = "model" -> Applied([c EXCEPT !.summarization.model = value])
    [] key = "max_tokens" ->
         LET v == parse_u32(value)
         IN IF ~IsSome(v) THEN Bailed(c)
            ELSE Applied([c EXCEPT !.summarization.max_tokens = Unwrap(v)])
    [] key = "auto_cleanup_audio" ->
         LET v == parse_bool(value)
         IN IF ~IsSome(v) THEN Bailed(c)
            ELSE Applied([c EXCEPT !.general.auto_cleanup_audio = Unwrap(v)])
    [] key = "chinese_conversion" ->
         LET lower == to_lowercase(value)
         IN IF lower \notin valid THEN Bailed(c)
            ELSE Applied([c EXCEPT !.transcription.chinese_conversion = Some(lower)])
    [] OTHER -> Bailed(c)

InitConfig ==
  /\ PipelineIdle
  /\ dl_eps = <<>>
  /\ dl_sem = 0
  /\ dl_tasks = <<>>
  /\ fs_dir = <<>>
  /\ fs_data = <<>>
  /\ PollIdle
  /\ DecIdle
  /\ AudIdle
  /\ StoreIdle
  /\ CfgIdle

NotCfg == <<PipelineVars, DlVars, PollVars, DecVars, AudVars, StoreVars, config>>

\* config_set.rs run(key, value): load, validate_and_apply, and save on Ok
ConfigSet(key, value) ==
  /\ set_call.n < MaxSets
  /\ LET r == validate_and_apply(app_config, key, value)
     IN /\ app_config' = IF r.ok THEN r.config ELSE app_config
        /\ set_call' = [key |-> key, value |-> value, ok |-> r.ok,
                        before |-> app_config, after |-> r.config,
                        n |-> set_call.n + 1]
  /\ UNCHANGED NotCfg

NextConfig == \E key \in Keys, value \in Values : ConfigSet(key, value)

SpecConfig == InitConfig /\ [][NextConfig]_vars

\* ================================================================ properties
Status(id) == db.episodes[id].status
EpisodeRows == DOMAIN db.episodes
K == config.max_concurrent_downloads

\* an invocation has ended and nothing has been started since
RunEnded == pc = "idle" /\ runs > 0

\* a batch run that went through download_episodes has ended
BatchEnded == RunEnded /\ tasks # <<>>

ErrTasks == {i \in DOMAIN tasks : tasks[i].st = "err"}

\* the run's discovered episodes are distinct and were all inserted by this run
NewDistinct == NoDup(all_new) /\ Range(all_new) \subseteq hist.inserted

\* C1's case: a full batch run in which exactly one download returned an error
\* and nothing failed afterwards
OneDownloadFailed ==
  /\ BatchEnded
  /\ NewDistinct
  /\ Cardinality(ErrTasks) = 1
  /\ ~hist.later_fail
  /\ config.api_key
  /\ ~args.download_only

\* C1: batch isolation.  After a batch run over distinct newly discovered
\* episodes in which exactly one download failed and nothing else did, the
\* failing episode is Failed with a "download: " reason, every other episode is
\* Summarized, and every task ran to its end.
BatchIsolation ==
  OneDownloadFailed =>
    \A i \in DOMAIN tasks :
      /\ tasks[i].st \in {"ok", "err"}
      /\ IF tasks[i].st = "err"
         THEN /\ Status(tasks[i].ep) = "failed"
              /\ IsSome(db.episodes[tasks[i].ep].fail_reason)
              /\ Unwrap(db.episodes[tasks[i].ep].fail_reason)[1] = "download: "
         ELSE Status(tasks[i].ep) = "summarized"

BatchIsolationWitness ==
  /\ OneDownloadFailed
  /\ Len(all_new) >= 2
  /\ \E i \in DOMAIN tasks : Status(tasks[i].ep) = "summarized"
  /\ \E i \in DOMAIN tasks : Status(tasks[i].ep) = "failed"

\* the order New < Downloaded < Transcribed < Summarized
Rank(status) ==
  CASE status = "new" -> 0
    [] status = "downloaded" -> 1
    [] status = "transcribed" -> 2
    [] status = "summarized" -> 3
    [] OTHER -> 4

\* C2: monotonicity.  As long as no invocation has used redo, a step changes a
\* non-Failed status only forward in New < Downloaded < Transcribed <
\* Summarized, or to Failed.
StatusMonotonic ==
  [][~hist'.redo_used =>
       \A id \in EpisodeRows :
         Status(id) # "failed" =>
           \/ db'.episodes[id].status = "failed"
           \/ Rank(db'.episodes[id].status) >= Rank(Status(id))]_vars

\* C3: artifacts.  Downloaded implies an audio_path, Transcribed implies a
\* transcript_path, Summarized implies a summary row.
ArtifactRecorded ==
  \A id \in EpisodeRows :
    /\ Status(id) = "downloaded" => IsSome(db.episodes[id].audio_path)
    /\ Status(id) = "transcribed" => IsSome(db.episodes[id].transcript_path)
    /\ Status(id) = "summarized" => has_summary(db, id)

\* download tasks spawned whose download has not returned
InFlight == {i \in DOMAIN tasks : tasks[i].st \in {"running", "fetching"}}

\* C4: concurrency bound.  With max_concurrent_downloads = K >= 1, at most K
\* spawned download tasks have not finished their download.
ConcurrencyBound ==
  K >= 1 => Cardinality(InFlight) <= K

\* the limiter is what holds the next task back
ConcurrencyBoundWitness ==
  /\ pc = "spawn"
  /\ K >= 1
  /\ Cardinality(InFlight) = K
  /\ \E i \in DOMAIN tasks : tasks[i].st = "pending"

RECURSIVE HeldPermits(_)
HeldPermits(ts) ==
  IF ts = <<>> THEN 0 ELSE Head(ts).permit + HeldPermits(Tail(ts))

\* C5: permits.  A task holds one permit from its spawn until its download
\* returns and gives it back exactly once, on success and on error; free and
\* held permits add up to K; when download_episodes has returned all K are free.
PermitAccounting ==
  /\ \A i \in DOMAIN tasks :
       /\ tasks[i].st = "pending" => tasks[i].permit = 0 /\ tasks[i].drops = 0
       /\ tasks[i].st \in {"running", "fetching"} =>
            tasks[i].permit = 1 /\ tasks[i].drops = 0
       /\ tasks[i].st \in {"ok", "err"} => tasks[i].permit = 0 /\ tasks[i].drops = 1
  /\ tasks # <<>> => sem + HeldPermits(tasks) = K
  /\ (tasks # <<>> /\ pc \notin {"spawn", "join"}) => sem = K

PermitAccountingWitness ==
  /\ pc = "transcribe"
  /\ sem = K
  /\ \E i \in DOMAIN tasks : tasks[i].st = "ok"
  /\ \E i \in DOMAIN tasks : tasks[i].st = "err"

\* the final destination paths of the batch
FinalPaths == {DlDest(i) : i \in DOMAIN dl_eps}

\* C6: a file at a final destination path holds the complete body of a single
\* response.
NoPartialFinal ==
  \A p \in DOMAIN fs_dir \cap FinalPaths :
    \E i \in DOMAIN dl_eps : fs_data[fs_dir[p]] = Body(dl_eps[i].audio_url)

\* C7: sync_feed returns exactly the episodes the call inserted, each once.
SyncFeedReturnsInserted ==
  hist.sf_calls > 0 =>
    /\ NoDup(hist.sf_ret)
    /\ Range(hist.sf_ret) = hist.sf_ins

\* C8: every phase failure of an invocation is persisted as Failed with the
\* failing phase's tag.
FailureRecorded ==
  RunEnded =>
    \A f \in hist.failures :
      /\ Status(f[1]) = "failed"
      /\ db.episodes[f[1]].fail_reason = Some(<<f[2], Cause>>)

\* C9: in a batch run, once Failed has been written for an episode no
\* transcription or summarization is started for it, and it is still Failed
\* when the run ends.
FailedExcluded ==
  [][/\ (pc = "transcribe" /\ tr_idx' = tr_idx + 1) =>
          downloaded[tr_idx + 1][1] \notin hist.failed_w
     /\ (pc = "summarize" /\ sum_idx' = sum_idx + 1) =>
          transcribed[sum_idx + 1] \notin hist.failed_w
     /\ (pc # "idle" /\ pc' = "idle" /\ tasks # <<>>) =>
          \A id \in hist'.failed_w : db'.episodes[id].status = "failed"]_vars

\* the episode a single-episode invocation names
RedoEpisode == Unwrap(args.episode_id)

\* C10: redo.  clear_episode_results on an episode with a transcript file, a
\* transcript_path and summaries removes the file, clears the path, deletes
\* the summaries and sets Downloaded; the invocation then skips neither the
\* transcription nor the summarization, and if it ends Ok (not download-only)
\* the episode is Summarized with exactly one summary row.
RedoRegenerates ==
  [][/\ (pc = "clear" /\ hist'.redo_full) =>
          /\ Unwrap(db.episodes[RedoEpisode].transcript_path) \notin files'
          /\ db'.episodes[RedoEpisode].transcript_path = None
          /\ SummariesOf(db', RedoEpisode) = {}
          /\ db'.episodes[RedoEpisode].status = "downloaded"
          /\ pc' = "single"
     /\ (hist'.redo_full /\ pc' = "s_summarize") =>
          hist'.fresh_tr /\ ~has_summary(db', RedoEpisode)
     /\ (hist'.redo_full /\ pc' = "idle" /\ result' = "ok" /\ ~args'.download_only) =>
          /\ hist'.fresh_tr
          /\ hist'.fresh_sum
          /\ db'.episodes[RedoEpisode].status = "summarized"
          /\ Cardinality(SummariesOf(db', RedoEpisode)) = 1]_vars

RedoRegeneratesWitness ==
  /\ hist.redo_full
  /\ RunEnded
  /\ result = "ok"
  /\ hist.fresh_tr
  /\ hist.fresh_sum
  /\ Status(RedoEpisode) = "summarized"

\* the persisted fields of an episode row that the phases write
Persisted(d, id) ==
  [status |-> d.episodes[id].status,
   fail_reason |-> d.episodes[id].fail_reason,
   audio_path |-> d.episodes[id].audio_path,
   transcript_path |-> d.episodes[id].transcript_path]

\* C11: idempotence.  In a single-episode run, when the episode's record names
\* an audio file that exists, the download step sends no request and leaves
\* status, audio_path and transcript_path as they were; when it names a
\* transcript file that exists, the transcribe step makes no recognition call
\* and leaves them as they were.
ArtifactReused ==
  [][/\ (/\ pc = "s_download"
         /\ IsSome(db.episodes[RedoEpisode].audio_path)
         /\ Unwrap(db.episodes[RedoEpisode].audio_path) \in files) =>
          /\ hist'.requested = hist.requested
          /\ Persisted(db', RedoEpisode) = Persisted(db, RedoEpisode)
     /\ (/\ pc = "s_transcribe"
         /\ IsSome(db.episodes[RedoEpisode].transcript_path)
         /\ Unwrap(db.episodes[RedoEpisode].transcript_path) \in files) =>
          /\ hist'.tr_calls = hist.tr_calls
          /\ Persisted(db', RedoEpisode) = Persisted(db, RedoEpisode)]_vars

\* a re-run reached summarization with both files found and no call made
ArtifactReusedWitness ==
  /\ pc = "s_summarize"
  /\ runs = 2
  /\ hist.requested = {}
  /\ hist.tr_calls = {}
  /\ Status(RedoEpisode) \in {"transcribed", "summarized"}
  /\ Unwrap(db.episodes[RedoEpisode].audio_path) \in files
  /\ Unwrap(db.episodes[RedoEpisode].transcript_path) \in files

\* transcription workers spawned and not yet awaited
LiveWorkers == {i \in DOMAIN handle : handle[i] \in {"running", "ok", "err"}}
\* summarization requests sent and not yet answered
OpenRequests == {i \in DOMAIN sm_req : sm_req[i] = "sent"}

\* C12: sequential phases.  In the batch transcribe and summarize loops at most
\* one worker and at most one request exist at a time, and the worker or
\* request of an episode is started only after the store write of every
\* episode started before it.
SequentialPhases ==
  tp_mode = "batch" =>
    /\ Cardinality(LiveWorkers) <= 1
    /\ Cardinality(OpenRequests) <= 1
    /\ \A i, j \in DOMAIN handle :
         (j < i /\ handle[i] # "none") => tp_written[j] # "none"
    /\ \A i, j \in DOMAIN sm_req :
         (j < i /\ sm_req[i] # "none" /\ sm_req[j] # "none") => sm_written[j] # "none"

\* the second episode's request is out after both phases handled the first
SequentialPhasesWitness ==
  /\ tp_mode = "batch"
  /\ Len(handle) >= 2
  /\ handle[2] = "joined"
  /\ stored[2] > 0
  /\ sm_written[1] # "none"
  /\ sm_req[2] = "sent"

\* C18: final display.  Once the worker of an episode has finished and been
\* awaited, the value the progress bar shows for the episode is the last
\* value the worker stored in the progress cell.
FinalDisplay ==
  \A i \in DOMAIN handle :
    (handle[i] = "joined" /\ stored[i] > 0) => pb[i] = Some(Shown(progress[i]))

\* the writes of one phase, and the episodes they are for
WritesOf(phase) == SelectSeq(hist.writes, LAMBDA w : w[1] = phase)
EpisodesOf(ws) == [i \in DOMAIN ws |-> ws[i][2]]
Succeeded(ws) == SelectSeq(ws, LAMBDA w : IsSome(w[3]))

\* the download-phase writes of the run in which the downloads complete one
\* after the other in discovery order (what a limit of one permit enforces)
RECURSIVE SequentialWrites(_, _, _)
SequentialWrites(ts, i, fs) ==
  IF i > Len(ts) THEN <<>>
  ELSE LET dest == TaskDest(ts[i])
           got == dest \in fs \/ ts[i].net = "ok"
       IN <<<<"download", ts[i].ep, IF got THEN Some(dest) ELSE None>>>>
          \o SequentialWrites(ts, i + 1, IF got THEN fs \cup {dest} ELSE fs)

\* C13: discovery order.  The audio-path / Failed writes follow discovery
\* order, transcription and summarization follow it restricted to the
\* episodes that succeeded in the phase before, and the download-phase writes
\* do not depend on the order in which the downloads complete.
DiscoveryOrder ==
  tasks # <<>> =>
    /\ EpisodesOf(WritesOf("download")) = SubSeq(all_new, 1, joined)
    /\ EpisodesOf(WritesOf("transcribe")) =
         SubSeq(EpisodesOf(Succeeded(WritesOf("download"))), 1, tr_idx)
    /\ EpisodesOf(WritesOf("summarize")) =
         SubSeq(EpisodesOf(Succeeded(WritesOf("transcribe"))), 1, sum_idx)
    /\ pc \notin {"spawn", "join"} =>
         WritesOf("download") = SequentialWrites(tasks, 1, hist.files0)

\* C14: missing API key.  A batch run without an API key makes no
\* summarization request and writes no "summarize: " failure; every episode
\* it transcribed is Transcribed with its transcript file and path in place;
\* the run returns Ok.
KeyMissingSkips ==
  (BatchEnded /\ ~config.api_key) =>
    /\ hist.sum_calls = {}
    /\ WritesOf("summarize") = <<>>
    /\ \A id \in EpisodeRows : db.episodes[id].fail_reason # Some(FailedSummarize)
    /\ \A i \in DOMAIN transcribed :
         LET id == transcribed[i]
         IN /\ Status(id) = "transcribed"
            /\ IsSome(db.episodes[id].transcript_path)
            /\ Unwrap(db.episodes[id].transcript_path) \in files
    /\ result = "ok"

\* C15: cleanup.  With auto_cleanup_audio on and download_only off, after a
\* batch run that downloaded at least one episode and returned Ok, none of
\* the audio files it downloaded is on disk.
AudioCleanedUp ==
  (/\ BatchEnded
   /\ result = "ok"
   /\ config.auto_cleanup_audio
   /\ ~args.download_only
   /\ downloaded # <<>>) =>
    \A i \in DOMAIN downloaded : downloaded[i][2] \notin files

\* C16: one audio file per episode.  Two distinct episodes never have the
\* same recorded audio_path.
AudioPathOwn ==
  \A a, b \in EpisodeRows :
    (a # b /\ IsSome(db.episodes[a].audio_path)) =>
      db.episodes[a].audio_path # db.episodes[b].audio_path

\* C17: exhaustion is final.  Once a next_chunk call has returned None, every
\* later call on the same decoder returns None.
StaysExhausted ==
  [][(dec_hist.exhausted /\ dec_hist'.calls = dec_hist.calls + 1) =>
       chunk_out' = None]_vars

\* C19: immediate commit.  The join loop is never waiting for the download of
\* one episode while the finished download of another is still to be written.
CommittedOnCompletion ==
  ~(/\ pc = "join"
    /\ joined < Len(tasks)
    /\ tasks[joined + 1].st \notin {"ok", "err"}
    /\ \E j \in DOMAIN tasks :
         /\ j > joined + 1
         /\ tasks[j].st \in {"ok", "err"}
         /\ tasks[j].ep # tasks[joined + 1].ep)

AudioFilesOf(fs) == {f \in fs : f[1] = "audio"}

AdvancedRows(d) ==
  {id \in DOMAIN d.episodes : d.episodes[id].status \in {"transcribed", "summarized"}}

\* C20: download_only.  In an invocation with download_only set, single-episode
\* or batch, transcribe is never called, no summarization request is sent, no
\* audio file is removed, and no episode row is written to a status beyond
\* 'downloaded'.
DownloadOnlyStops ==
  [][args'.download_only =>
       /\ hist'.tr_calls = {}
       /\ hist'.sum_calls = {}
       /\ pc # "idle" =>
            /\ AudioFilesOf(files) \subseteq files'
            /\ \A id \in AdvancedRows(db') :
                 /\ id \in AdvancedRows(db)
                 /\ db'.episodes[id].status = db.episodes[id].status]_vars

\* a download-only invocation that ran both modes has ended with success: the
\* single-episode part on a row that existed before, then the batch part, and
\* each of them downloaded an episode
DownloadOnlyStopsWitness ==
  /\ args.download_only
  /\ args.episode_id # None
  /\ args.name # None
  /\ pc = "idle"
  /\ result = "ok"
  /\ Unwrap(args.episode_id) \in hist.requested
  /\ \E i \in DOMAIN downloaded :
       /\ downloaded[i][1] # Unwrap(args.episode_id)
       /\ downloaded[i][1] \in hist.requested

\* ---- audio functions
Frame(s, channels, k) == [j \in 1..channels |-> s[(k - 1) * channels + j]]

\* v * channels = total
IsMeanOf(v, total, channels) == v.num * channels = total * v.den

\* C21: stereo_to_mono(samples, N) returns floor(len / N) values, the k-th the
\* arithmetic mean of the k-th complete frame of N samples (the sample itself
\* for N = 1).
MonoIsFrameMean ==
  au_call.f = "stereo_to_mono" =>
    /\ Len(au_out) = Len(au_call.samples) \div au_call.channels
    /\ \A k \in DOMAIN au_out :
         IsMeanOf(au_out[k], sum(Frame(au_call.samples, au_call.channels, k)),
                  au_call.channels)
    /\ au_call.channels = 1 => au_out = au_call.samples

\* a call with several channels on a slice with an incomplete last frame, whose
\* first frame has a mean that is not one of its values
MonoIsFrameMeanWitness ==
  /\ au_call.f = "stereo_to_mono"
  /\ au_call.channels = MaxChannels
  /\ Len(au_call.samples) % au_call.channels # 0
  /\ Len(au_out) >= 1
  /\ \A j \in 1..au_call.channels : au_out[1] # au_call.samples[j]

\* C22: resample of N >= 1 samples from rate R1 to a different rate R2 returns
\* exactly ceil(N * R2 / R1) samples.
ResampleLength ==
  (/\ au_call.f = "resample"
   /\ au_call.from_rate # au_call.to_rate
   /\ au_call.samples # <<>>) =>
    Len(au_out) = (Len(au_call.samples) * au_call.to_rate + au_call.from_rate - 1)
                    \div au_call.from_rate

\* C23: resample returns its input for equal rates, and the empty sequence for
\* an empty input at any rates.
ResampleIdentity ==
  au_call.f = "resample" =>
    /\ au_call.from_rate = au_call.to_rate => au_out = au_call.samples
    /\ au_call.samples = <<>> => au_out = <<>>

\* resample was called at equal rates on MaxSamples samples that are not all
\* the same
ResampleIdentityWitness ==
  /\ au_call.f = "resample"
  /\ au_call.from_rate = au_call.to_rate
  /\ Len(au_call.samples) = MaxSamples
  /\ au_call.samples[1] # au_call.samples[2]

\* C24: the first sample resample returns for a non-empty input is the first
\* input sample, at any rates.
ResampleFirstSample ==
  (au_call.f = "resample" /\ au_call.samples # <<>>) =>
    /\ au_out # <<>>
    /\ au_out[1] = au_call.samples[1]

\* an interpolating call: different rates and two different leading samples
ResampleFirstSampleWitness ==
  /\ au_call.f = "resample"
  /\ au_call.from_rate # au_call.to_rate
  /\ Len(au_call.samples) >= 2
  /\ au_call.samples[1] # au_call.samples[2]
  /\ Len(au_out) >= 2

\* ---- store operations
\* this step is a call of the remove command that deleted a podcast
RemoveStep == last_op'.op = "remove" /\ last_op'.n = last_op.n + 1

SummaryRows(d) == {d.summaries[i] : i \in DOMAIN d.summaries}

\* C25: status round trip.  from_db(s.as_str(), s.fail_reason()) = s for every
\* EpisodeStatus s, and a status stored with update_episode_status is the status
\* of the episode get_episode returns.
StatusRoundTrip ==
  last_op.op = "update_episode_status" =>
    /\ from_db(as_str(last_op.status), fail_reason(last_op.status)) = last_op.status
    /\ map_episode_status(get_episode(db, last_op.id)) = last_op.status

\* Failed with the empty reason was stored on a row that has a recorded download
StatusRoundTripWitness ==
  /\ last_op.op = "update_episode_status"
  /\ last_op.status = Failed(<<>>)
  /\ IsSome(db.episodes[last_op.id].audio_path)

SummariesKept ==
  [][~(RemoveStep /\ last_op'.purge) => SummaryRows(db) \subseteq SummaryRows(db')]_vars

\* the paths recorded for the episodes of podcast p
RecordedFiles(d, p) ==
  UNION {{Unwrap(o) : o \in {d.episodes[id].audio_path, d.episodes[id].transcript_path} \ {None}} :
           id \in EpisodesOfPodcast(d, p)}

\* C28: remove with --purge deletes the audio and transcript files of the
\* removed podcast's episodes; remove without --purge leaves the files in place.
PurgeDeletesFiles ==
  [][RemoveStep =>
       IF last_op'.purge
       THEN RecordedFiles(db, last_op'.id) \cap files' = {}
       ELSE files' = files]_vars

\* ---- later runs
\* the statuses an earlier invocation leaves an unfinished episode in
Unfinished == {<<"New">>, <<"Downloaded">>, <<"Transcribed">>, Failed(FailedDownload)}

\* a batch run has returned Ok after the feed was fetched, with every phase
\* enabled and no phase failure
BatchRunSucceeded ==
  /\ pc = "idle"
  /\ runs >= 1
  /\ result = "ok"
  /\ ~args.download_only
  /\ config.api_key
  /\ hist.sf_calls = 1
  /\ hist.failures = {}

\* C29: catch-up.  When a batch sync whose phases all succeed has returned, no
\* episode that was stored before that run is still New, Downloaded,
\* Transcribed or Failed with a download reason.
LaterRunCatchesUp ==
  BatchRunSucceeded =>
    \A id \in (DOMAIN db.episodes) \ hist.inserted :
      map_episode_status(db.episodes[id]) \notin Unfinished

\* C30: feed failure isolation.  In a batch run in which the feed of some
\* podcast could not be fetched or parsed, every other podcast is still
\* discovered and its new episodes are handed to the download phase, and when
\* the run has returned with no phase failure the result is Ok and these
\* episodes are Summarized.
FeedFailureIsolated ==
  (runs >= 1 /\ hist.fetch_failed # {}) =>
    /\ hist.fetched \cup hist.fetch_failed \cup Range(podcasts) = db.podcasts
    /\ hist.fetched \cap hist.fetch_failed = {}
    /\ pc # "discover" => hist.inserted \subseteq Range(all_new)
    /\ pc = "idle" => result = "ok"
    /\ (pc = "idle" /\ ~args.download_only /\ config.api_key /\ hist.failures = {}) =>
         \A id \in hist.inserted : map_episode_status(db.episodes[id]) = <<"Summarized">>

\* the first podcast's feed failed, and an episode of the second podcast was
\* discovered in the same run and is Summarized when the run has returned
FeedFailureIsolatedWitness ==
  /\ pc = "idle"
  /\ result = "ok"
  /\ hist.fetch_failed = {1}
  /\ hist.fetched = {2}
  /\ hist.inserted # {}
  /\ \A id \in hist.inserted :
       /\ db.episodes[id].podcast_id = 2
       /\ map_episode_status(db.episodes[id]) = <<"Summarized">>

\* ---- phase order
DownloadWrites == SelectSeq(hist.writes, LAMBDA w : w[1] = "download")
TranscribeWrites == SelectSeq(hist.writes, LAMBDA w : w[1] = "transcribe")

\* C31: phase barrier.  In a batch run, while a transcription is about to start
\* or has started, every download task has returned and its result is written
\* to the store; while a summarization is about to start or has started, the
\* transcription of every downloaded episode has ended and is written.
PhaseBarrier ==
  /\ (pc = "transcribe" \/ hist.tr_calls # {}) =>
       /\ \A i \in DOMAIN tasks : tasks[i].st \in {"ok", "err"}
       /\ joined = Len(tasks)
       /\ Len(DownloadWrites) = Len(tasks)
  /\ ((pc = "summarize" /\ config.api_key) \/ hist.sum_calls # {}) =>
       /\ tr_idx = Len(downloaded)
       /\ hist.tr_calls = {downloaded[i][1] : i \in DOMAIN downloaded}
       /\ Len(TranscribeWrites) = Len(downloaded)

\* a run with a failed and a successful download has summarized an episode
PhaseBarrierWitness ==
  /\ hist.sum_calls # {}
  /\ Len(tasks) = MaxFeedLen
  /\ \E i \in DOMAIN tasks : tasks[i].st = "err"

\* C32: latest summary.  For every episode that has summary rows,
\* get_summary_by_episode returns the row inserted last.
LatestSummary ==
  \A e \in DOMAIN db.episodes :
    SummariesOf(db, e) # {} =>
      get_summary_by_episode(db, created_at, e) =
        {r \in SummaryRows(db) : r.episode_id = e /\ \A q \in SummaryRows(db) : q.episode_id = e => q.id <= r.id}

\* ---- decoder
\* the packets of the source read so far that were decoded, in source order
\* (a packet is named by the number of packets from it to the end)
DecodedSoFar ==
  LET n == Len(dec_hist.source)
      read == n - Len(decoder.format)
      at(i) == [j \in 1..i |-> n - j + 1]
  IN SelectSeq(at(read), LAMBDA k : dec_hist.source[n - k + 1] = "audio")

\* C33: packet accounting.  After any sequence of next_chunk calls the chunks
\* returned hold, in source order and once each, the samples of every decoded
\* packet read so far, and a chunk returned by a call that did not reach the
\* end of the source holds at least max_seconds seconds of samples.
EveryPacketOnce ==
  /\ dec_hist.returned = DecodedSoFar
  /\ (IsSome(chunk_out) /\ ~dec_hist.hit_end) =>
       Len(Unwrap(chunk_out).samples) >= dec_hist.max_seconds

\* the source ended during a call that had read packets, after an earlier call
\* returned a full chunk, with a skipped packet in the source
EveryPacketOnceWitness ==
  /\ dec_hist.hit_end
  /\ IsSome(chunk_out)
  /\ dec_hist.calls >= 2
  /\ Len(dec_hist.returned) > Len(Unwrap(chunk_out).samples)
  /\ Len(dec_hist.returned) < Len(dec_hist.source)

\* C34: duplicate insert.  A call of insert_episode leaves every episode row
\* that was stored before it unchanged and never stores a second row for a
\* (podcast_id, guid) pair, so a repeated insert changes no row and no count.
DuplicateIgnored ==
  [][(last_op'.op = "insert_episode" /\ last_op'.n = last_op.n + 1) =>
       /\ \A id \in DOMAIN db.episodes :
            id \in DOMAIN db'.episodes /\ db'.episodes[id] = db.episodes[id]
       /\ \A a, b \in DOMAIN db'.episodes :
            (/\ db'.episodes[a].podcast_id = db'.episodes[b].podcast_id
             /\ db'.episodes[a].guid = db'.episodes[b].guid) => a = b]_vars

\* an episode was stored and updated, then inserted again: one row, still updated
DuplicateIgnoredWitness ==
  /\ last_op.op = "insert_episode"
  /\ last_op.n = 4
  /\ Cardinality(db.podcasts) = 1
  /\ DOMAIN db.episodes = {1}
  /\ db.ep_seq = 1
  /\ db.episodes[1].status # "new"

\* ---- config set
\* the one field a key names
FieldOf ==
  [k \in Keys \ {"nonexistent"} |->
     IF k \in {"auto_cleanup_audio"} THEN <<"general", k>>
     ELSE IF k \in {"api_base_url", "api_key_env", "model", "max_tokens"}
     THEN <<"summarization", k>>
     ELSE <<"transcription", k>>]

\* the configuration b is a but for the field at path f
OnlyFieldChanged(a, b, f) ==
  \A sec \in DOMAIN a : \A fld \in DOMAIN a[sec] :
    <<sec, fld>> # f => b[sec][fld] = a[sec][fld]

\* the value is written with decimal digits only, after an optional plus sign
Numeric(value) ==
  \E k \in {0, 1} :
    /\ Len(value) > k
    /\ k = 1 => value[1] = "+"
    /\ \A i \in (k + 1)..Len(value) : value[i] \in {"0", "1", "2", "5", "8", "9"}

\* C35: validate_and_apply.  A call that succeeds changes at most the field its
\* key names; a call that fails leaves the configuration as it was; and the
\* call fails for an unknown key, for a cpu_percent that is not a number or not
\* in 1..100, for a max_tokens that is not a number, and for an
\* auto_cleanup_audio that is neither true nor false.
ConfigSetAtomic ==
  set_call.n > 0 =>
    LET key == set_call.key
        value == set_call.value
    IN /\ set_call.ok =>
            /\ key \in DOMAIN FieldOf
            /\ OnlyFieldChanged(set_call.before, set_call.after, FieldOf[key])
       /\ ~set_call.ok => set_call.after = set_call.before
       /\ key \notin DOMAIN FieldOf => ~set_call.ok
       /\ (key = "cpu_percent" /\ ~Numeric(value)) => ~set_call.ok
       /\ (key = "cpu_percent" /\ value \in {<<"0">>, <<"1", "0", "1">>, <<"8", "1", "9", "2">>})
            => ~set_call.ok
       /\ (key = "max_tokens" /\ ~Numeric(value)) => ~set_call.ok
       /\ (key = "auto_cleanup_audio"
           /\ value \notin {<<"t", "r", "u", "e">>, <<"f", "a", "l", "s", "e">>}) => ~set_call.ok

\* a cpu_percent out of range was refused after another setting was applied
ConfigSetAtomicWitness ==
  /\ set_call.n = 2
  /\ set_call.key = "cpu_percent"
  /\ set_call.value = <<"0">>
  /\ ~set_call.ok
  /\ set_call.before # DefaultConfig
  /\ app_config = set_call.before

\* C36: non-blocking poll.  The orchestrator is at handle.await only when the
\* worker has finished, and a worker that has finished, with a transcript or
\* with an error, is eventually awaited and its result handled.
PollNeverBlocks ==
  /\ [](tp_pc = "await" => handle[tp_i] \in {"ok", "err"})
  /\ \A i \in 1..MaxFeedLen :
       (i \in DOMAIN handle /\ handle[i] \in {"ok", "err"}) ~>
         (i \in DOMAIN handle /\ handle[i] = "joined")

\* a worker that stored progress and returned an error was awaited and its
\* failure written
PollNeverBlocksWitness ==
  /\ tp_mode = "batch"
  /\ handle[1] = "joined"
  /\ stored[1] > 0
  /\ tp_written[1] = "failed"

\* C37: fail_reason.  In every state of the store the fail_reason column of an
\* episode row is non-null exactly when its status column is 'failed'.
FailReasonIffFailed ==
  \A id \in DOMAIN db.episodes :
    IsSome(db.episodes[id].fail_reason) <=> db.episodes[id].status = "failed"

\* C38: download termination.  Once download_episodes has been entered it
\* eventually has spawned and joined every task and returned, for every value
\* of max_concurrent_downloads.
DownloadsReturn == (pc = "spawn") ~> (pc \notin {"spawn", "join"})

\* C39: HTTP status of the audio request.  A download whose response has a
\* non-success status takes no step that returns Ok or that puts a file at its
\* final destination path, and a download that sent a request returns Ok (the
\* episode is then recorded as Downloaded) only on a successful response.
is_success(status) == status = "200 OK"

Answered(i) == dl_tasks[i].status # "none"

HttpErrorFails ==
  [][\A i \in DOMAIN dl_tasks :
       (Answered(i) /\ ~is_success(dl_tasks[i].status) /\ dl_tasks'[i] # dl_tasks[i])
         => /\ dl_tasks'[i].st # "ok"
            /\ DlDest(i) \in DOMAIN fs_dir' => DlDest(i) \in DOMAIN fs_dir]_vars

====
